---- MODULE Spec2Model ----
(***************************************************************************)
(* State-machine model of the live trading engine                          *)
(* (src/backend/live_trader_fixed.py, class LiveTrader).                   *)
(*                                                                         *)
(* One tick of LiveTrader.run is a sequence of steps, one per method the   *)
(* loop body calls for a game; pc records the position in the loop body.   *)
(* A call the loop body skips, or one that returns at once without asking  *)
(* the gateway, is not a step of its own: control passes to the next call  *)
(* that does something.                                                    *)
(* Prices are whole cents, money is whole cents, time is counted in units  *)
(* of 1800 seconds.      None (Python) is the number 0 for optional        *)
(* numbers and the string "None" for optional strings and booleans.        *)
(* Write-only fields (checkpoint_*_ts, entry_time, highest_entry, titles)  *)
(* are left out.                                                           *)
(*                                                                         *)
(* The exchange is the environment: it accepts, fills, cancels and drops   *)
(* orders, and answers each request of the engine.  An order's fill        *)
(* advances when the exchange answers a status lookup for it.  for_order   *)
(* (the buy order a sell order was placed for), placed_by (the method that *)
(* placed an order), exit_reason, cancel_sent, discoveries,                *)
(* eligibility_log, restarts, tick_orders and anomalies are history: the   *)
(* engine does not read them.                                              *)
(***************************************************************************)
EXTENDS Integers, Sequences, FiniteSets, TLC

VARIABLES
    now,            \* the clock read at the top of the loop body (run, line 1257)
    dry_run,        \* config['risk']['dry_run']
    bankroll,       \* self.bankroll, in cents
    total_exposure, \* self.total_exposure, in cents
    active_games,   \* self.active_games: ticker -> GameMonitor
    schedule,       \* the loaded schedules: ticker -> kickoff_ts
    orders,         \* the exchange's order book: order id -> order
    db_orders,      \* order ids recorded by the telemetry sink (log_order)
    pc,             \* position in the loop body of run
    todo,           \* games still to process in this tick
    games_to_remove,\* run's local list of the same name
    cancel_sent,    \* history: order ids a cancel request was sent for
    discoveries,    \* history: ticker -> how often the game was discovered
    anomalies,      \* history: the number of failed requests and odd answers so far
    eligibility_log,\* history: ticker -> the eligibility decisions made for the market
    args,           \* the arguments of a function applied on its own (SizerSpec)
    ret,            \* its result
    restarts,       \* history: per restart of the engine, what it held when it stopped
    tick_orders     \* history: how many orders the book held when the current tick began

vars == <<now, dry_run, bankroll, total_exposure, active_games, schedule, orders,
          db_orders, pc, todo, games_to_remove, cancel_sent, discoveries, anomalies,
          eligibility_log, args, ret, restarts, tick_orders>>

----------------------------------------------------------------------------
(* Bounds of the model *)

\* the exchange accepts at most this many orders in one run; further
\* placements fail like any other gateway error
MaxOrders == 6

\* at most this many requests fail or are answered oddly in one run: a
\* placement or cancellation that raises, a telemetry write that is lost, a
\* status lookup answered not-found or with a zero filled_count.  Quote,
\* volume and status lookups that merely fail are not counted.
MaxAnomalies == 2

\* a scheduled game is discovered at most this many times in one run
MaxDiscoveries == 1

\* the same bound in RediscoverySpec, where a closed game is discovered again
MaxRediscoveries == 2

\* TwoMarketSpec follows the run up to this instant (the 30-minute checkpoint
\* of its markets, when their ladders are placed)
TwoMarketHorizon == 12

----------------------------------------------------------------------------
(* Program constants *)

None == 0

\* time is counted in units of 1800 seconds
SIX_HOURS == 12
THREE_HOURS == 6
THIRTY_MIN == 1
\* discover_upcoming_games: halftime_ts = kickoff_ts + 5400
HALFTIME_OFFSET == 3

\* _determine_eligibility: threshold = 0.57, in cents
threshold == 57

\* the configuration the engine is run with (live_trading_config.yaml)
Config ==
    [ bankroll            |-> 200,      \* cents
      kelly_fraction      |-> 25,       \* percent
      max_exposure_pct    |-> 100,      \* percent
      revert_fraction     |-> 50,       \* percent
      revert_band         |-> 55,       \* revert_bands[0], cents
      scaling_levels      |-> << [trigger |-> 49, kelly_mult |-> 10],
                                 [trigger |-> 45, kelly_mult |-> 20] >>,  \* kelly_mult in tenths
      max_total_exposure  |-> 500,      \* cents
      max_concurrent_games|-> 1,
      lookahead           |-> 14 ]      \* lookahead_hours, in time units

\* The engine compares now with each game's window starts, kickoff and
\* halftime only, so the clock is modelled at the instants where one of these
\* comparisons changes its outcome: a tick reads the instant the previous tick
\* read or the next one.
Instants(sched) ==
    {0} \cup UNION {{sched[t] - SIX_HOURS, sched[t] - THREE_HOURS, sched[t] - THIRTY_MIN,
                     sched[t], sched[t] + HALFTIME_OFFSET} : t \in DOMAIN sched}

NextInstant(sched, t) ==
    IF \E i \in Instants(sched) : i > t
    THEN CHOOSE i \in Instants(sched) : i > t /\ \A j \in Instants(sched) : j > t => i <= j
    ELSE t

----------------------------------------------------------------------------
(* Arithmetic helpers *)

Max(a, b) == IF a >= b THEN a ELSE b

\* Python int(a / b) for b > 0: truncation toward zero
TruncDiv(a, b) == IF a >= 0 THEN a \div b ELSE -((-a) \div b)

\* int(p * 100) where p is the float c / 100.0: the float product falls just
\* below the integer for these cents values
FloatShortCents == {29, 57, 58}
IntTimes100(c) == IF c \in FloatShortCents THEN c - 1 ELSE c

\* floor(a * b / c) for a, b >= 0 and c > 0, computed digit by digit of a so
\* that no intermediate product leaves the 32-bit integers: <<quotient, rest>>
RECURSIVE MulDivQR(_, _, _)
MulDivQR(a, b, c) ==
    IF a = 0 THEN <<0, 0>>
    ELSE LET h == MulDivQR(a \div 10, b, c)
             t == 10 * h[2] + (a % 10) * b
         IN  <<10 * h[1] + t \div c, t % c>>

MulDiv(a, b, c) == MulDivQR(a, b, c)[1]

RECURSIVE SumSeq(_)
SumSeq(s) == IF s = <<>> THEN 0 ELSE Head(s) + SumSeq(Tail(s))

RECURSIVE RemoveFirst(_, _)
RemoveFirst(s, x) ==
    IF s = <<>> THEN <<>>
    ELSE IF Head(s) = x THEN Tail(s)
    ELSE <<Head(s)>> \o RemoveFirst(Tail(s), x)

RECURSIVE RemoveAll(_, _)
RemoveAll(s, xs) ==
    IF xs = <<>> THEN s ELSE RemoveAll(RemoveFirst(s, Head(xs)), Tail(xs))

InSeq(x, s) == \E i \in 1..Len(s) : s[i] = x

----------------------------------------------------------------------------
(* Gateway answers *)

\* get_market: the two best asks in cents, or no answer
Quotes == { [yes_ask |-> 60, no_ask |-> 41],
            [yes_ask |-> 41, no_ask |-> 60] }
NoQuote == [yes_ask |-> 0, no_ask |-> 0]
QuoteAnswers == Quotes \cup {NoQuote}

\* get_current_price: the favourite's price in cents, None when unavailable
get_current_price(q) ==
    LET favorite_price == Max(q.yes_ask, q.no_ask)
    IN  IF favorite_price > 0 THEN favorite_price ELSE None

\* get_favorite_side
get_favorite_side(q) ==
    IF q = NoQuote THEN "None"
    ELSE IF q.yes_ask >= q.no_ask THEN "yes" ELSE "no"

----------------------------------------------------------------------------
(* The exchange: orders are numbered in the order they are accepted *)

NewOrder(ticker, side, action, count, price, order_type, status, for_order, placed_by) ==
    [ ticker |-> ticker, side |-> side, action |-> action, count |-> count,
      price |-> price, type |-> order_type, status |-> status,
      filled |-> IF status = "executed" THEN count ELSE 0,
      for_order |-> for_order, placed_by |-> placed_by ]

PlaceOutcomes == {"error", "resting", "executed"}

\* place_order answers with an order unless the request fails
PlaceOk(book, outcome) == outcome # "error" /\ Len(book) < MaxOrders

\* the order book after place_order
place_order(book, ticker, side, action, count, price, order_type, outcome, for_order, placed_by) ==
    IF PlaceOk(book, outcome)
    THEN Append(book, NewOrder(ticker, side, action, count, price, order_type, outcome,
                               for_order, placed_by))
    ELSE book

\* cancel_order succeeds on a resting order and raises otherwise
CancelOk(book, id, outcome) ==
    /\ outcome = "ok"
    /\ id \in 1..Len(book)
    /\ book[id].status = "resting"

cancel_order(book, id, outcome) ==
    IF CancelOk(book, id, outcome)
    THEN [book EXCEPT ![id].status = "canceled"]
    ELSE book

\* get_order_status.  An answer a = [kind, fill]: the exchange has filled
\* the order up to a.fill contracts by the time it answers, and answers
\*   "error"      an exception or a response without 'order'
\*   "none"       None, which the engine reads as not-found (404).  The
\*                exchange answers so for an executed order it has dropped
\*                from its active orders (status "gone"), from then on
\*   "order"      the order with its status and filled_count
\*   "zero_fill"  the order as executed, with filled_count 0
StatusAnswers(book, id) ==
    IF id \notin 1..Len(book) THEN {[kind |-> "error", fill |-> 0]}
    ELSE LET o == book[id]
             fills == IF o.status = "resting" THEN o.filled..o.count ELSE {o.filled}
         IN  IF o.status = "gone" THEN {[kind |-> "none", fill |-> o.filled]}
             ELSE {[kind |-> "error", fill |-> o.filled]}
                  \cup {[kind |-> "order", fill |-> f] : f \in fills}
                  \cup {[kind |-> k, fill |-> o.count] :
                          k \in IF o.status \in {"executed", "resting"}
                                THEN {"none", "zero_fill"} ELSE {}}

\* an answer that counts as an anomaly
OddAnswer(book, id, a) ==
    \/ a.kind = "zero_fill"
    \/ a.kind = "none" /\ book[id].status # "gone"

\* the order book after the exchange answered a
Progress(book, id, a) ==
    IF id \in 1..Len(book) /\ book[id].status \in {"resting", "executed"} /\ a.kind # "error"
    THEN [book EXCEPT ![id].filled = a.fill,
                      ![id].status = IF a.kind = "none" THEN "gone"
                                     ELSE IF a.fill = book[id].count THEN "executed"
                                     ELSE "resting"]
    ELSE book

\* the fields of the answer the engine reads
Answer(book, id, a) ==
    LET o == Progress(book, id, a)[id]
    IN  [ status |-> IF o.status = "gone" THEN "executed" ELSE o.status,
          filled_count |-> IF a.kind = "zero_fill" THEN 0 ELSE o.filled,
          count |-> o.count,
          price |-> o.price ]

----------------------------------------------------------------------------
(* The telemetry sink's order records *)

\* SupabaseLogger.log_order: the record is kept unless the write fails
log_order(db, id, ok) == IF ok THEN db \cup {id} ELSE db

\* SupabaseLogger.get_order: the record of an order, if one was kept
get_order(db, id) == id \in db

----------------------------------------------------------------------------
(* GameMonitor and Position *)

GameMonitor(kickoff_ts) ==
    [ kickoff_ts |-> kickoff_ts,
      halftime_ts |-> kickoff_ts + HALFTIME_OFFSET,
      pregame_prob |-> None,
      odds_6h |-> None, odds_3h |-> None, odds_30m |-> None,
      is_eligible |-> "None",
      position_side |-> "None",
      triggered |-> FALSE,
      order_ids |-> <<>>,
      positions |-> <<>>,
      exiting |-> FALSE,
      exit_order_ids |-> <<>>,
      exit_reason |-> "none" ]    \* history: which path set exiting

Position(side, entry_price, size, order_id) ==
    [ side |-> side, entry_price |-> entry_price, size |-> size,
      order_id |-> order_id, exit_order_id |-> None ]

\* the identifiers dry-run mode makes up: "dry_run_<n>" and "dry_run_exit_<id>"
DryRunId(n) == -(n + 1)
DryRunExitId(order_id) == order_id - 100

----------------------------------------------------------------------------
(* Position Sizer *)

\* calculate_position_sizes: <<trigger, size>> per level.  bankroll in cents,
\* kelly_frac and max_exposure in percent, kelly_mult in tenths.
IdealSize(bankroll_, kelly_frac, level) ==
    LET base_size == (bankroll_ * kelly_frac) \div (100 * level.trigger)
    IN  Max(1, (base_size * level.kelly_mult) \div 10)

\* the ideal sizes of a ladder, and their capital in cents (lines 510-523)
IdealSizes(bankroll_, kelly_frac, levels_to_hit) ==
    [i \in 1..Len(levels_to_hit) |-> IdealSize(bankroll_, kelly_frac, levels_to_hit[i])]

TotalIdealCapital(bankroll_, kelly_frac, levels_to_hit) ==
    SumSeq([i \in 1..Len(levels_to_hit) |->
              IdealSize(bankroll_, kelly_frac, levels_to_hit[i]) * levels_to_hit[i].trigger])

\* max_capital_allowed, in hundredths of a cent (line 525)
MaxCapitalAllowed(bankroll_, max_exposure) == bankroll_ * max_exposure

\* variant: the cap is not compared
AlwaysWithinCap(bankroll_, kelly_frac, max_exposure, levels_to_hit) == TRUE

\* line 527: the ideal sizes are within the cap
WithinCap(bankroll_, kelly_frac, max_exposure, levels_to_hit) ==
    TotalIdealCapital(bankroll_, kelly_frac, levels_to_hit) * 100
        <= MaxCapitalAllowed(bankroll_, max_exposure)

\* variant: the scale factor is not applied
Unscaled(ideal_size, max_capital_allowed, total_ideal_capital) == ideal_size

\* variant: the scaled size is not raised to one contract
ScaledNoFloor(ideal_size, max_capital_allowed, total_ideal_capital) ==
    MulDiv(ideal_size, max_capital_allowed, 100 * total_ideal_capital)

\* lines 530-533: scaled_size = max(1, int(ideal_size * scale_factor)) with
\* scale_factor = max_capital_allowed / total_ideal_capital
ScaledSize(ideal_size, max_capital_allowed, total_ideal_capital) ==
    Max(1, MulDiv(ideal_size, max_capital_allowed, 100 * total_ideal_capital))

calculate_position_sizes(bankroll_, kelly_frac, max_exposure, levels_to_hit) ==
    LET ideal == IdealSizes(bankroll_, kelly_frac, levels_to_hit)
        total_ideal_capital == TotalIdealCapital(bankroll_, kelly_frac, levels_to_hit)
    IN  IF WithinCap(bankroll_, kelly_frac, max_exposure, levels_to_hit)
        THEN [i \in 1..Len(levels_to_hit) |-> <<levels_to_hit[i].trigger, ideal[i]>>]
        ELSE [i \in 1..Len(levels_to_hit) |->
                <<levels_to_hit[i].trigger,
                  ScaledSize(ideal[i], MaxCapitalAllowed(bankroll_, max_exposure),
                             total_ideal_capital)>>]

----------------------------------------------------------------------------
(* Order Ladder Controller *)

\* _place_exit_order: the bracket sell price (measured move)
ExitPriceAt(pregame_prob, entry_price, revert_fraction) ==
    LET pregame_cents == IntTimes100(pregame_prob)
        drop_cents == pregame_cents - entry_price
        expected_revert_cents == TruncDiv(drop_cents * revert_fraction, 100)
    IN  entry_price + expected_revert_cents

\* the bracket sell price with the configured revert_fraction (line 686)
ExitPrice(g, position) == ExitPriceAt(g.pregame_prob, position.entry_price, Config.revert_fraction)

\* variant: no bracket sell is asked for
NoBracket(dry, ticker, g, position, book, outcome) == [position |-> position, book |-> book]

\* _place_exit_order: the position (with its exit_order_id) and the order book
\* after the bracket sell was asked for
place_exit_order(dry, ticker, g, position, book, outcome) ==
    IF g.pregame_prob = None THEN [position |-> position, book |-> book]
    ELSE IF dry
    THEN [position |-> [position EXCEPT !.exit_order_id = DryRunExitId(position.order_id)],
          book |-> book]
    ELSE IF PlaceOk(book, outcome)
    THEN [position |-> [position EXCEPT !.exit_order_id = Len(book) + 1],
          book |-> place_order(book, ticker, position.side, "sell", position.size,
                               ExitPrice(g, position), "limit", outcome,
                               position.order_id, "_place_exit_order")]
    ELSE [position |-> position, book |-> book]

\* what the gateway and the telemetry sink answer while one level is placed
LevelAnswers ==
    {[buy |-> "error", exit |-> "error", logged |-> FALSE]}
    \cup {[buy |-> "resting", exit |-> "error", logged |-> l] : l \in BOOLEAN}
    \cup {[buy |-> "executed", exit |-> x, logged |-> FALSE] : x \in PlaceOutcomes}

LevelFaults(ans) ==
    Cardinality({i \in 1..Len(ans) :
        \/ ans[i].buy = "error"
        \/ ans[i].buy = "executed" /\ ans[i].exit = "error"
        \/ ans[i].buy = "resting" /\ ~ans[i].logged})

\* variant: the recorded side does not follow the favourite
AlwaysYes(favorite_side) == "yes"

\* the side recorded for the market when its ladder is placed (line 666)
RecordedSide(favorite_side) == favorite_side

\* enter_position, lines 600-663: the loop over the sized levels.
\* st = [order_ids, positions, book, db]
RECURSIVE PlaceLadder(_, _, _, _, _, _, _)
PlaceLadder(dry, ticker, g, favorite_side, sized, ans, st) ==
    IF sized = <<>> THEN st
    ELSE
      LET price_cents == Head(sized)[1]
          size == Head(sized)[2]
          a == Head(ans)
          st1 ==
            IF dry
            THEN [st EXCEPT !.order_ids = Append(@, DryRunId(Len(st.order_ids)))]
            ELSE IF ~PlaceOk(st.book, a.buy) THEN st
            ELSE
              LET id == Len(st.book) + 1
                  book1 == place_order(st.book, ticker, favorite_side, "buy", size,
                                       price_cents, "limit", a.buy, None,
                                       "enter_position")
              IN  IF a.buy = "executed"
                  THEN LET r == place_exit_order(dry, ticker, g,
                                    Position(favorite_side, price_cents, size, id),
                                    book1, a.exit)
                       IN  [st EXCEPT !.positions = Append(@, r.position),
                                      !.book = r.book]
                  ELSE [st EXCEPT !.order_ids = Append(@, id),
                                  !.book = book1,
                                  !.db = log_order(@, id, a.logged)]
      IN  PlaceLadder(dry, ticker, g, favorite_side, Tail(sized), Tail(ans), st1)

\* total_capital of a sized ladder, in cents (line 593)
TotalCapital(sized) == SumSeq([i \in 1..Len(sized) |-> sized[i][1] * sized[i][2]])

----------------------------------------------------------------------------
(* Fill Reconciler *)

\* variant: the lookup of an existing Position always comes back empty
NoExistingPosition(positions, order_id) == FALSE

\* check_order_fills, lines 783-786: a Position already stands for the order
ExistingPosition(positions, order_id) ==
    \E i \in 1..Len(positions) : positions[i].order_id = order_id

\* check_order_fills, lines 731-824: the loop over the pending orders.
\* ans[i] is the status answer for ids[i], exits[i] the answer to the bracket
\* sell placed if ids[i] becomes a Position.
\* st = [positions, book, filled_orders]
RECURSIVE PollOrders(_, _, _, _, _, _, _, _)
PollOrders(dry, ticker, g, db, ids, ans, exits, st) ==
    IF ids = <<>> THEN st
    ELSE
      LET order_id == Head(ids)
          a == Head(ans)
          book1 == Progress(st.book, order_id, a)
          r == Answer(st.book, order_id, a)
          recovered == r.status = "executed" /\ r.filled_count = 0 /\ get_order(db, order_id)
          skipped == r.status = "executed" /\ r.filled_count = 0 /\ ~get_order(db, order_id)
          filled_count == IF recovered THEN r.count ELSE r.filled_count
          st1 ==
            IF a.kind = "error" THEN st
            ELSE IF a.kind = "none"
            THEN [st EXCEPT !.book = book1, !.filled_orders = Append(@, order_id)]
            ELSE IF skipped THEN [st EXCEPT !.book = book1]
            ELSE
              LET created ==
                    (filled_count > 0 \/ r.status = "executed")
                    /\ ~ExistingPosition(st.positions, order_id)
                  p == place_exit_order(dry, ticker, g,
                          Position(g.position_side, r.price, filled_count, order_id),
                          book1, Head(exits))
              IN  [ positions |-> IF created THEN Append(st.positions, p.position)
                                  ELSE st.positions,
                    book |-> IF created THEN p.book ELSE book1,
                    filled_orders |-> IF r.status = "executed"
                                      THEN Append(st.filled_orders, order_id)
                                      ELSE st.filled_orders ]
      IN  PollOrders(dry, ticker, g, db, Tail(ids), Tail(ans), Tail(exits), st1)

\* check_order_fills: the game and the order book after the poll
check_order_fills(dry, ticker, g, db, book, ans, exits) ==
    IF g.order_ids = <<>> \/ dry THEN [game |-> g, book |-> book]
    ELSE
      LET st == PollOrders(dry, ticker, g, db, g.order_ids, ans, exits,
                    [positions |-> g.positions, book |-> book, filled_orders |-> <<>>])
      IN  [ game |-> [g EXCEPT !.positions = st.positions,
                               !.order_ids = RemoveAll(g.order_ids, st.filled_orders)],
            book |-> st.book ]

\* the status answers a poll of ids may get, one per order (the orders
\* polled in one call are distinct)
RECURSIVE AnswerSeqs(_, _)
AnswerSeqs(book, ids) ==
    IF ids = <<>> THEN {<<>>}
    ELSE {<<a>> \o rest : a \in StatusAnswers(book, Head(ids)),
                          rest \in AnswerSeqs(book, Tail(ids))}

\* the answers to n placements, one per request
RECURSIVE OutcomeSeqs(_, _)
OutcomeSeqs(n, outcomes) ==
    IF n = 0 THEN {<<>>}
    ELSE {<<a>> \o rest : a \in outcomes, rest \in OutcomeSeqs(n - 1, outcomes)}

\* the answers to the cancellations of ids, one per request: only a resting
\* order can be cancelled
RECURSIVE CancelSeqs(_, _)
CancelSeqs(book, ids) ==
    IF ids = <<>> THEN {<<>>}
    ELSE {<<a>> \o rest :
            a \in IF Head(ids) \in 1..Len(book) /\ book[Head(ids)].status = "resting"
                  THEN {"ok", "error"} ELSE {"error"},
            rest \in CancelSeqs(book, Tail(ids))}

\* the anomalies among answers: failed placements, failed cancellations of
\* resting orders, odd status answers
PlaceFaults(outs) == Cardinality({i \in 1..Len(outs) : outs[i] = "error"})

CancelFaults(book, ids, outs) ==
    Cardinality({i \in 1..Len(ids) :
        /\ outs[i] = "error"
        /\ ids[i] \in 1..Len(book)
        /\ book[ids[i]].status = "resting"})

StatusFaults(book, ids, ans) ==
    Cardinality({i \in 1..Len(ids) :
        ids[i] \in 1..Len(book) /\ OddAnswer(book, ids[i], ans[i])})

----------------------------------------------------------------------------
(* Exit Controller *)

\* variant: the pending list is not cleared after the cancel loop
KeepPending(order_ids) == order_ids

\* cancel_pending_orders, line 1008: the pending list after the cancel loop
PendingAfterCancel(order_ids) == <<>>

\* cancel_pending_orders, lines 989-1005: the order book after the cancel loop
RECURSIVE CancelAll(_, _, _)
CancelAll(book, ids, outs) ==
    IF ids = <<>> THEN book
    ELSE CancelAll(cancel_order(book, Head(ids), Head(outs)), Tail(ids), Tail(outs))

\* variant: the bracket-sell references of the positions are dropped as well
ForgetExits(dry, g, book, outs) ==
    IF g.order_ids = <<>> THEN [game |-> g, book |-> book, sent |-> <<>>]
    ELSE [ game |-> [g EXCEPT !.order_ids = <<>>,
                              !.positions = [i \in 1..Len(g.positions) |->
                                  [g.positions[i] EXCEPT !.exit_order_id = None]]],
           book |-> IF dry THEN book ELSE CancelAll(book, g.order_ids, outs),
           sent |-> IF dry THEN <<>> ELSE g.order_ids ]

\* cancel_pending_orders: [game, book, sent], sent the ids a cancel request
\* was sent for
cancel_pending_orders(dry, g, book, outs) ==
    IF g.order_ids = <<>> THEN [game |-> g, book |-> book, sent |-> <<>>]
    ELSE IF dry
    THEN [game |-> [g EXCEPT !.order_ids = <<>>], book |-> book, sent |-> <<>>]
    ELSE [ game |-> [g EXCEPT !.order_ids = PendingAfterCancel(g.order_ids)],
           book |-> CancelAll(book, g.order_ids, outs),
           sent |-> g.order_ids ]

\* _cancel_exit_orders, lines 956-968: the loop over the positions.
\* st = [positions, book, sent]
RECURSIVE CancelExits(_, _, _)
CancelExits(todo_, outs, st) ==
    IF todo_ = <<>> THEN st
    ELSE
      LET position == Head(todo_)
          id == position.exit_order_id
          st1 ==
            IF id = None THEN [st EXCEPT !.positions = Append(@, position)]
            ELSE [ positions |-> Append(st.positions,
                        IF CancelOk(st.book, id, Head(outs))
                        THEN [position EXCEPT !.exit_order_id = None]
                        ELSE position),
                   book |-> cancel_order(st.book, id, Head(outs)),
                   sent |-> Append(st.sent, id) ]
      IN  CancelExits(Tail(todo_), Tail(outs), st1)

\* _cancel_exit_orders: [game, book, sent]
cancel_exit_orders(dry, g, book, outs) ==
    IF \A i \in 1..Len(g.positions) : g.positions[i].exit_order_id = None
    THEN [game |-> g, book |-> book, sent |-> <<>>]
    ELSE IF dry
    THEN [ game |-> [g EXCEPT !.positions =
                        [i \in 1..Len(g.positions) |->
                            [g.positions[i] EXCEPT !.exit_order_id = None]]],
           book |-> book, sent |-> <<>> ]
    ELSE LET st == CancelExits(g.positions, outs,
                        [positions |-> <<>>, book |-> book, sent |-> <<>>])
         IN  [ game |-> [g EXCEPT !.positions = st.positions],
               book |-> st.book, sent |-> st.sent ]

\* check_reversion_signal, lines 858-887: the loop over the positions, which
\* stops at the first exit order found filled.  [book, signal]
RECURSIVE PollExits(_, _, _)
PollExits(positions, ans, book) ==
    IF positions = <<>> THEN [book |-> book, signal |-> FALSE]
    ELSE
      LET id == Head(positions).exit_order_id
          a == Head(ans)
      IN  IF id = None \/ a.kind = "error"
          THEN PollExits(Tail(positions), Tail(ans), book)
          ELSE LET book1 == Progress(book, id, a)
                   r == Answer(book, id, a)
               IN  IF a.kind = "none" \/ r.status = "executed" \/ r.filled_count > 0
                   THEN [book |-> book1, signal |-> TRUE]
                   ELSE PollExits(Tail(positions), Tail(ans), book1)

\* check_reversion_signal: [book, signal]
check_reversion_signal(dry, g, book, q, ans) ==
    IF g.positions = <<>> THEN [book |-> book, signal |-> FALSE]
    ELSE IF dry
    THEN [ book |-> book,
           signal |-> get_current_price(q) # None
                      /\ get_current_price(q) >= Config.revert_band ]
    ELSE PollExits(g.positions, ans, book)

\* the exit order ids of the positions, None where a position has none
ExitIds(positions) == [i \in 1..Len(positions) |-> positions[i].exit_order_id]

\* variant: the halftime sells are sent as market orders
MarketOrderType == "market"

\* exit_position_at_halftime, line 920: order_type of the halftime sells
HalftimeOrderType == "limit"

\* exit_position_at_halftime, lines 907-929: the loop over the positions.
\* st = [positions, exit_order_ids, book]
RECURSIVE PlaceHalftimeSells(_, _, _, _, _, _)
PlaceHalftimeSells(dry, ticker, todo_, current_price_cents, outs, st) ==
    IF todo_ = <<>> THEN st
    ELSE
      LET position == Head(todo_)
          st1 ==
            IF dry
            THEN [st EXCEPT !.positions = Append(@, position),
                            !.exit_order_ids = Append(@, DryRunExitId(position.order_id))]
            ELSE IF PlaceOk(st.book, Head(outs))
            THEN [ positions |-> Append(st.positions,
                        [position EXCEPT !.exit_order_id = Len(st.book) + 1]),
                   exit_order_ids |-> Append(st.exit_order_ids, Len(st.book) + 1),
                   book |-> place_order(st.book, ticker, position.side, "sell",
                                position.size, current_price_cents,
                                HalftimeOrderType, Head(outs),
                                position.order_id, "exit_position_at_halftime") ]
            ELSE [st EXCEPT !.positions = Append(@, position)]
      IN  PlaceHalftimeSells(dry, ticker, Tail(todo_), current_price_cents, Tail(outs), st1)

\* exit_position_at_halftime: [game, book]
exit_position_at_halftime(dry, ticker, g, book, q, outs) ==
    IF get_current_price(q) = None THEN [game |-> g, book |-> book]
    ELSE
      LET st == PlaceHalftimeSells(dry, ticker, g.positions,
                    IntTimes100(get_current_price(q)), outs,
                    [positions |-> <<>>, exit_order_ids |-> g.exit_order_ids, book |-> book])
      IN  [ game |-> [g EXCEPT !.positions = st.positions,
                               !.exit_order_ids = st.exit_order_ids,
                               !.exiting = TRUE,
                               !.exit_reason = "deadline"],
            book |-> st.book ]

\* exit_position, lines 1071-1109: the loop over the positions.
\* st = [exit_order_ids, book]
RECURSIVE PlaceExitSells(_, _, _, _, _, _)
PlaceExitSells(dry, ticker, todo_, price_cents, outs, st) ==
    IF todo_ = <<>> THEN st
    ELSE
      LET position == Head(todo_)
          st1 ==
            IF dry
            THEN [st EXCEPT !.exit_order_ids = Append(@, DryRunExitId(position.order_id))]
            ELSE IF PlaceOk(st.book, Head(outs))
            THEN [ exit_order_ids |-> Append(st.exit_order_ids, Len(st.book) + 1),
                   book |-> place_order(st.book, ticker, position.side, "sell",
                                position.size, price_cents, "limit", Head(outs),
                                position.order_id, "exit_position") ]
            ELSE st
      IN  PlaceExitSells(dry, ticker, Tail(todo_), price_cents, Tail(outs), st1)

\* exit_position: [game, book, sent]
exit_position(dry, ticker, g, book, use_market_orders, couts, xouts, q, outs) ==
    LET c1 == cancel_pending_orders(dry, g, book, couts)
        c2 == IF c1.game.positions # <<>>
              THEN cancel_exit_orders(dry, c1.game, c1.book, xouts)
              ELSE [game |-> c1.game, book |-> c1.book, sent |-> <<>>]
        current_price_cents == IntTimes100(get_current_price(q))
        price_cents == IF use_market_orders THEN Max(1, current_price_cents - 1)
                       ELSE current_price_cents
        st == PlaceExitSells(dry, ticker, c2.game.positions, price_cents, outs,
                    [exit_order_ids |-> c2.game.exit_order_ids, book |-> c2.book])
    IN  IF get_current_price(q) = None
        THEN [game |-> c2.game, book |-> c2.book, sent |-> c1.sent \o c2.sent]
        ELSE [ game |-> [c2.game EXCEPT !.exit_order_ids = st.exit_order_ids,
                                        !.exiting = TRUE,
                                        !.exit_reason = IF use_market_orders
                                                        THEN "deadline" ELSE "band"],
               book |-> st.book,
               sent |-> c1.sent \o c2.sent ]

\* check_exit_signal, given that the game has positions
check_exit_signal(g, now_, q) ==
    \/ now_ >= g.halftime_ts
    \/ get_current_price(q) # None /\ get_current_price(q) >= Config.revert_band

\* monitor_exit_orders, lines 1173-1180: the P&L booked for a filled exit
\* order, matched to the first position of the order's size
RECURSIVE MatchedPnl(_, _, _)
MatchedPnl(positions, total_count, fill_price) ==
    IF positions = <<>> THEN 0
    ELSE IF Head(positions).size = total_count
    THEN IF fill_price # 0
         THEN (fill_price - Head(positions).entry_price) * Head(positions).size
         ELSE 0
    ELSE MatchedPnl(Tail(positions), total_count, fill_price)

\* monitor_exit_orders, lines 1143-1196: the loop over the exit orders.
\* st = [book, all_filled, filled_orders, total_pnl]
RECURSIVE PollExitOrders(_, _, _, _)
PollExitOrders(positions, ids, ans, st) ==
    IF ids = <<>> THEN st
    ELSE
      LET order_id == Head(ids)
          a == Head(ans)
          book1 == Progress(st.book, order_id, a)
          r == Answer(st.book, order_id, a)
          st1 ==
            IF a.kind = "error" THEN [st EXCEPT !.all_filled = FALSE]
            ELSE IF a.kind = "none"
            THEN [st EXCEPT !.book = book1, !.filled_orders = Append(@, order_id)]
            ELSE IF r.status = "executed"
            THEN [st EXCEPT !.book = book1,
                            !.filled_orders = Append(@, order_id),
                            !.total_pnl = @ + MatchedPnl(positions, r.count, r.price)]
            ELSE [st EXCEPT !.book = book1, !.all_filled = FALSE]
      IN  PollExitOrders(positions, Tail(ids), Tail(ans), st1)

\* monitor_exit_orders: [game, book, bankroll, done, pnl]
monitor_exit_orders(dry, g, book, bankroll_, ans) ==
    IF g.exit_order_ids = <<>>
    THEN [game |-> g, book |-> book, bankroll |-> bankroll_, done |-> FALSE, pnl |-> 0]
    ELSE IF dry
    THEN [ game |-> [g EXCEPT !.positions = <<>>, !.exit_order_ids = <<>>,
                              !.exiting = FALSE],
           book |-> book, bankroll |-> bankroll_, done |-> TRUE, pnl |-> 0 ]
    ELSE
      LET st == PollExitOrders(g.positions, g.exit_order_ids, ans,
                    [book |-> book, all_filled |-> TRUE, filled_orders |-> <<>>,
                     total_pnl |-> 0])
          left == RemoveAll(g.exit_order_ids, st.filled_orders)
      IN  IF st.all_filled /\ left = <<>>
          THEN [ game |-> [g EXCEPT !.exit_order_ids = left, !.positions = <<>>,
                                    !.exiting = FALSE],
                 book |-> st.book, bankroll |-> bankroll_ + st.total_pnl,
                 done |-> TRUE, pnl |-> st.total_pnl ]
          ELSE [ game |-> [g EXCEPT !.exit_order_ids = left],
                 book |-> st.book, bankroll |-> bankroll_, done |-> FALSE, pnl |-> 0 ]

----------------------------------------------------------------------------
(* Checkpoint Evaluator *)

\* the market's trailing 30-day volume against volume_threshold_usd
Volumes == {"low", "high"}

\* get_30day_volume: the volume, or None when the lookup fails
VolumeAnswers == Volumes \cup {"None"}

\* variant: the 30-minute sample has no veto
AnyHighCheckpoint(g, volume) ==
    IF volume = "low" THEN "False"
    ELSE IF \E odds \in {g.odds_6h, g.odds_3h, g.odds_30m} : odds # None /\ odds >= threshold
    THEN "True"
    ELSE "False"

\* _determine_eligibility: the eligibility decided from the three samples and
\* the 30-day volume (low: below volume_threshold_usd; None: lookup failed)
determine_eligibility(g, volume) ==
    LET has_high_checkpoint ==
            \E odds \in {g.odds_6h, g.odds_3h, g.odds_30m} :
                odds # None /\ odds >= threshold
    IN  IF g.odds_30m # None /\ g.odds_30m < threshold THEN "False"
        ELSE IF volume = "low" THEN "False"
        ELSE IF has_high_checkpoint THEN "True"
        ELSE "False"

\* _determine_eligibility, line 495: the log line formats volume with
\* {volume:,.0f}, which raises TypeError when the lookup returned None
EligibilityLogRaises(g, volume) ==
    determine_eligibility(g, volume) = "True" /\ volume = "None"

\* variant: the windows are tested latest first
LatestWindowFirst(g, now_, q, volume) ==
    LET time_to_kickoff == g.kickoff_ts - now_
        current_price == get_current_price(q)
    IN  IF time_to_kickoff <= THIRTY_MIN /\ g.odds_30m = None
        THEN IF current_price # None
             THEN LET g1 == [g EXCEPT !.odds_30m = current_price]
                  IN  [g1 EXCEPT !.is_eligible = determine_eligibility(g1, volume)]
             ELSE g
        ELSE IF time_to_kickoff <= THREE_HOURS /\ g.odds_3h = None
        THEN IF current_price # None THEN [g EXCEPT !.odds_3h = current_price] ELSE g
        ELSE IF time_to_kickoff <= SIX_HOURS /\ g.odds_6h = None
        THEN IF current_price # None
             THEN [g EXCEPT !.odds_6h = current_price, !.pregame_prob = current_price]
             ELSE g
        ELSE g

\* variant: a missing quote at the 30-minute checkpoint makes the market
\* ineligible
IneligibleWithoutQuote(g, now_, q, volume) ==
    LET time_to_kickoff == g.kickoff_ts - now_
        current_price == get_current_price(q)
    IN  IF time_to_kickoff <= SIX_HOURS /\ g.odds_6h = None
        THEN IF current_price # None
             THEN [g EXCEPT !.odds_6h = current_price, !.pregame_prob = current_price]
             ELSE g
        ELSE IF time_to_kickoff <= THREE_HOURS /\ g.odds_3h = None
        THEN IF current_price # None THEN [g EXCEPT !.odds_3h = current_price] ELSE g
        ELSE IF time_to_kickoff <= THIRTY_MIN /\ g.odds_30m = None
        THEN IF current_price # None
             THEN LET g1 == [g EXCEPT !.odds_30m = current_price]
                  IN  [g1 EXCEPT !.is_eligible = determine_eligibility(g1, volume)]
             ELSE [g EXCEPT !.is_eligible = "False"]
        ELSE g

\* check_and_capture_checkpoint: the game after the call
check_and_capture_checkpoint(g, now_, q, volume) ==
    LET time_to_kickoff == g.kickoff_ts - now_
        current_price == get_current_price(q)
    IN  IF time_to_kickoff <= SIX_HOURS /\ g.odds_6h = None
        THEN IF current_price # None
             THEN [g EXCEPT !.odds_6h = current_price, !.pregame_prob = current_price]
             ELSE g
        ELSE IF time_to_kickoff <= THREE_HOURS /\ g.odds_3h = None
        THEN IF current_price # None THEN [g EXCEPT !.odds_3h = current_price] ELSE g
        ELSE IF time_to_kickoff <= THIRTY_MIN /\ g.odds_30m = None
        THEN IF current_price # None
             THEN LET g1 == [g EXCEPT !.odds_30m = current_price]
                  IN  [g1 EXCEPT !.is_eligible = determine_eligibility(g1, volume)]
             ELSE g
        ELSE g

\* check_and_capture_checkpoint reaches _determine_eligibility in this call
DecidesEligibility(g, now_, q) ==
    /\ ~(g.kickoff_ts - now_ <= SIX_HOURS /\ g.odds_6h = None)
    /\ ~(g.kickoff_ts - now_ <= THREE_HOURS /\ g.odds_3h = None)
    /\ g.kickoff_ts - now_ <= THIRTY_MIN /\ g.odds_30m = None
    /\ get_current_price(q) # None

\* variant: the ladder is placed without waiting for the eligibility decision
EnterWithoutEligibility(g, now_) == ~(now_ >= g.kickoff_ts)

\* check_entry_signal
check_entry_signal(g, now_) ==
    /\ ~(now_ >= g.kickoff_ts)
    /\ g.is_eligible # "None"
    /\ g.is_eligible = "True"

\* variant: the safety ceiling is not compared
NeverExceeds(total_capital) == FALSE

\* enter_position, line 596: the ladder's notional is above the safety ceiling
ExceedsCeiling(total_capital) == total_capital > Config.max_total_exposure

\* enter_position: [game, book, db, total_exposure]
enter_position(dry, ticker, g, book, db, bankroll_, exposure, q1, q2, ans) ==
    LET favorite_side == get_favorite_side(q2)
        positions == calculate_position_sizes(bankroll_, Config.kelly_fraction,
                        Config.max_exposure_pct, Config.scaling_levels)
        total_capital == TotalCapital(positions)
        st == PlaceLadder(dry, ticker, g, favorite_side, positions, ans,
                    [order_ids |-> g.order_ids, positions |-> g.positions,
                     book |-> book, db |-> db])
    IN  IF \/ get_current_price(q1) = None
           \/ favorite_side = "None"
           \/ ExceedsCeiling(total_capital)
        THEN [game |-> g, book |-> book, db |-> db, total_exposure |-> exposure]
        ELSE [ game |-> [g EXCEPT !.order_ids = st.order_ids,
                                  !.positions = st.positions,
                                  !.triggered = TRUE,
                                  !.position_side = RecordedSide(favorite_side)],
               book |-> st.book, db |-> st.db,
               total_exposure |-> exposure + total_capital ]

----------------------------------------------------------------------------
(* Game Lifecycle Supervisor: LiveTrader.run *)

Tickers == {"A", "B"}

RECURSIVE SetToSeq(_)
SetToSeq(S) ==
    IF S = {} THEN <<>>
    ELSE LET x == CHOOSE y \in S : TRUE IN <<x>> \o SetToSeq(S \ {x})

SeqToSet(s) == {s[i] : i \in 1..Len(s)}

\* the game the loop body is working on
ticker == Head(todo)
game == active_games[ticker]

\* line 1297: the halftime timeout applies to the game in this tick
HalftimeDue(g, now_) == now_ >= g.halftime_ts /\ g.positions # <<>> /\ ~g.exiting

\* check_and_capture_checkpoint asks for a quote in this tick
CheckpointDue(g, now_) ==
    \/ g.kickoff_ts - now_ <= SIX_HOURS /\ g.odds_6h = None
    \/ g.kickoff_ts - now_ <= THREE_HOURS /\ g.odds_3h = None
    \/ g.kickoff_ts - now_ <= THIRTY_MIN /\ g.odds_30m = None

\* line 1365: the games that hold positions
ActivePositions(ag) == Cardinality({t \in DOMAIN ag : ag[t].positions # <<>>})

\* the calls of the loop body, in order
Steps == <<"halftime", "checkpoint", "fills", "reversion", "monitor", "entry",
           "exit_signal">>

\* the loop body makes call Steps[i] for game g, and the call does something
StepDue(i, g, ag, now_, dry) ==
    CASE Steps[i] = "halftime"    -> HalftimeDue(g, now_)
      [] Steps[i] = "checkpoint"  -> CheckpointDue(g, now_)
      [] Steps[i] = "fills"       -> g.triggered /\ g.order_ids # <<>> /\ ~dry
      [] Steps[i] = "reversion"   -> g.positions # <<>> /\ ~g.exiting
      [] Steps[i] = "monitor"     -> g.exiting /\ g.exit_order_ids # <<>>
      [] Steps[i] = "entry"       -> /\ ~g.exiting
                                     /\ ~g.triggered
                                     /\ check_entry_signal(g, now_)
                                     /\ ActivePositions(ag) < Config.max_concurrent_games
      [] Steps[i] = "exit_signal" -> g.positions # <<>> /\ ~g.exiting

\* the first call from Steps[i] on that does something for g, 0 if none;
\* an exiting game leaves the loop body at line 1362 (continue)
RECURSIVE FirstDue(_, _, _, _, _)
FirstDue(i, g, ag, now_, dry) ==
    IF i > Len(Steps) THEN 0
    ELSE IF StepDue(i, g, ag, now_, dry) THEN i
    ELSE IF Steps[i] = "monitor" /\ g.exiting THEN 0
    ELSE FirstDue(i + 1, g, ag, now_, dry)

\* where control is after the loop body reached call Steps[i] for Head(td):
\* at the next call that does something, for this game or a later one, or
\* asleep after the games in rm were deleted (lines 1380-1383)
RECURSIVE Dispatch(_, _, _, _, _, _)
Dispatch(i, td, ag, rm, now_, dry) ==
    IF td = <<>>
    THEN [ pc |-> "sleep", todo |-> <<>>,
           active_games |-> [t \in (DOMAIN ag) \ rm |-> ag[t]],
           games_to_remove |-> {} ]
    ELSE LET k == FirstDue(i, ag[Head(td)], ag, now_, dry)
         IN  IF k = 0 THEN Dispatch(1, Tail(td), ag, rm, now_, dry)
             ELSE [pc |-> Steps[k], todo |-> td, active_games |-> ag,
                   games_to_remove |-> rm]

StepIndex(p) == CHOOSE i \in 1..Len(Steps) : Steps[i] = p

\* control passes on after the call p returned (p = "end": the loop body is
\* left for this game)
Goto(p, ag, rm, now_) ==
    LET d == IF p = "end" THEN Dispatch(1, Tail(todo), ag, rm, now_, dry_run)
             ELSE Dispatch(StepIndex(p), todo, ag, rm, now_, dry_run)
    IN  /\ pc' = d.pc
        /\ todo' = d.todo
        /\ active_games' = d.active_games
        /\ games_to_remove' = d.games_to_remove

\* tick_orders is the length of the book at the time the latest tick began
TickLog == tick_orders' = IF pc = "sleep" THEN Len(orders) ELSE tick_orders

\* the state after LiveTrader.__init__ when the engine is started at instant
\* t0: the schedule holds the markets, all with the same kickoff, and dry_run
\* is one of modes
StartAt(markets, modes, t0) ==
    /\ now = t0
    /\ dry_run \in modes
    /\ bankroll = Config.bankroll
    /\ total_exposure = 0
    /\ active_games = [t \in {} |-> 0]
    /\ schedule = [t \in markets |-> 13]
    /\ orders = <<>>
    /\ db_orders = {}
    /\ pc = "sleep"
    /\ todo = <<>>
    /\ games_to_remove = {}
    /\ cancel_sent = {}
    /\ discoveries = [t \in Tickers |-> 0]
    /\ anomalies = 0
    /\ eligibility_log = [t \in Tickers |-> <<>>]
    /\ args = <<>>
    /\ ret = <<>>
    /\ restarts = <<>>
    /\ tick_orders = 0

\* the engine is started more than six hours before the kickoff
Start(markets, modes) == StartAt(markets, modes, 0)

\* one market is scheduled
Init == Start({"A"}, BOOLEAN)

\* n more anomalies happen in this step
Anomalies(n) == anomalies + n <= MaxAnomalies /\ anomalies' = anomalies + n

\* lines 1257-1287: the clock is read, upcoming games are discovered when no
\* game is active or on the minute (rediscover), and the loop over the
\* active games starts
Tick(max_discoveries, clock) ==
    /\ pc = "sleep"
    /\ \E t \in {now, NextInstant(schedule, now)} \cap clock, rediscover \in BOOLEAN :
        LET fresh == IF DOMAIN active_games = {} \/ rediscover
                     THEN {tk \in DOMAIN schedule :
                             /\ t < schedule[tk]
                             /\ schedule[tk] < t + Config.lookahead
                             /\ tk \notin DOMAIN active_games
                             /\ discoveries[tk] < max_discoveries}
                     ELSE {}
        IN  \E qs \in [fresh -> QuoteAnswers] :
              LET ag == [tk \in DOMAIN active_games \cup fresh |->
                           IF tk \in fresh
                           THEN [GameMonitor(schedule[tk]) EXCEPT
                                    !.pregame_prob = get_current_price(qs[tk])]
                           ELSE active_games[tk]]
                  d == Dispatch(1, SetToSeq(DOMAIN ag), ag, {}, t, dry_run)
              IN  /\ now' = t
                  /\ discoveries' = [tk \in Tickers |->
                        IF tk \in fresh THEN discoveries[tk] + 1 ELSE discoveries[tk]]
                  /\ pc' = d.pc
                  /\ todo' = d.todo
                  /\ active_games' = d.active_games
                  /\ games_to_remove' = d.games_to_remove
    /\ UNCHANGED <<dry_run, bankroll, total_exposure, schedule, orders, db_orders,
                   cancel_sent, anomalies,
                   eligibility_log, args, ret, restarts>>
    /\ TickLog

StartTick == Tick(MaxDiscoveries, Nat)

\* lines 1297-1304: halftime timeout, the pending buy orders are cancelled
HalftimeTimeout ==
    /\ pc = "halftime"
    /\ \E couts \in CancelSeqs(orders, game.order_ids) :
        LET c == cancel_pending_orders(dry_run, game, orders, couts)
        IN  /\ Anomalies(CancelFaults(orders, game.order_ids, couts))
            /\ active_games' = [active_games EXCEPT ![ticker] = c.game]
            /\ orders' = c.book
            /\ cancel_sent' = cancel_sent \cup SeqToSet(c.sent)
    /\ pc' = "halftime_cancel_exits"
    /\ UNCHANGED <<now, dry_run, bankroll, total_exposure, schedule, db_orders, todo,
                   games_to_remove, discoveries,
                   eligibility_log, args, ret, restarts>>
    /\ TickLog

\* line 1305: the bracket sells are cancelled
HalftimeCancelExits ==
    /\ pc = "halftime_cancel_exits"
    /\ \E xouts \in CancelSeqs(orders, ExitIds(game.positions)) :
        LET c == cancel_exit_orders(dry_run, game, orders, xouts)
        IN  /\ Anomalies(CancelFaults(orders, ExitIds(game.positions), xouts))
            /\ active_games' = [active_games EXCEPT ![ticker] = c.game]
            /\ orders' = c.book
            /\ cancel_sent' = cancel_sent \cup SeqToSet(c.sent)
    /\ pc' = "halftime_exit"
    /\ UNCHANGED <<now, dry_run, bankroll, total_exposure, schedule, db_orders, todo,
                   games_to_remove, discoveries,
                   eligibility_log, args, ret, restarts>>
    /\ TickLog

\* lines 1308-1309: the flatten sells are placed; continue
HalftimeExit ==
    /\ pc = "halftime_exit"
    /\ \E q \in QuoteAnswers, outs \in OutcomeSeqs(Len(game.positions), PlaceOutcomes) :
        LET r == exit_position_at_halftime(dry_run, ticker, game, orders, q, outs)
        IN  /\ Anomalies(PlaceFaults(outs))
            /\ orders' = r.book
            /\ Goto("end", [active_games EXCEPT ![ticker] = r.game], games_to_remove, now)
    /\ UNCHANGED <<now, dry_run, bankroll, total_exposure, schedule, db_orders,
                   cancel_sent, discoveries,
                   eligibility_log, args, ret, restarts>>
    /\ TickLog

\* line 1312: check_and_capture_checkpoint, the quote drawn from quotes.  The
\* market's trailing volume is traded; the lookup answers it or fails.
CheckpointOn(quotes) ==
    /\ pc = "checkpoint"
    /\ \E q \in quotes, traded \in Volumes :
        \E volume \in IF DecidesEligibility(game, now, q) THEN {traded, "None"}
                       ELSE {traded} :
        LET g1 == check_and_capture_checkpoint(game, now, q, volume)
            ag == [active_games EXCEPT ![ticker] = g1]
        IN  /\ eligibility_log' =
                  IF DecidesEligibility(game, now, q)
                  THEN [eligibility_log EXCEPT ![ticker] =
                          Append(@, [is_eligible |-> g1.is_eligible, volume |-> traded])]
                  ELSE eligibility_log
            /\ IF DecidesEligibility(game, now, q) /\ EligibilityLogRaises(g1, volume)
               THEN /\ pc' = "crashed"
                    /\ active_games' = ag
                    /\ UNCHANGED <<todo, games_to_remove>>
               ELSE Goto("fills", ag, games_to_remove, now)
    /\ UNCHANGED <<now, dry_run, bankroll, total_exposure, schedule, orders, db_orders,
                   cancel_sent, discoveries, anomalies,
                   args, ret, restarts>>
    /\ TickLog

Checkpoint == CheckpointOn(QuoteAnswers)

\* lines 1336-1338: check_order_fills
OrderFills ==
    /\ pc = "fills"
    /\ \E ans \in AnswerSeqs(orders, game.order_ids),
          exits \in OutcomeSeqs(Len(game.order_ids), PlaceOutcomes) :
        LET r == check_order_fills(dry_run, ticker, game, db_orders, orders, ans, exits)
        IN  /\ Anomalies(StatusFaults(orders, game.order_ids, ans) + PlaceFaults(exits))
            /\ orders' = r.book
            /\ Goto("reversion", [active_games EXCEPT ![ticker] = r.game],
                    games_to_remove, now)
    /\ UNCHANGED <<now, dry_run, bankroll, total_exposure, schedule, db_orders,
                   cancel_sent, discoveries,
                   eligibility_log, args, ret, restarts>>
    /\ TickLog

\* lines 1341-1355: reversion check; on a signal the pending buy orders are
\* cancelled and the game is marked exiting
Reversion ==
    /\ pc = "reversion"
    /\ \E q \in QuoteAnswers,
          ans \in AnswerSeqs(orders, ExitIds(game.positions)),
          couts \in CancelSeqs(orders, game.order_ids) :
        LET r == check_reversion_signal(dry_run, game, orders, q, ans)
            c == cancel_pending_orders(dry_run, game, r.book, couts)
        IN  IF r.signal
            THEN /\ Anomalies(StatusFaults(orders, ExitIds(game.positions), ans)
                              + CancelFaults(orders, game.order_ids, couts))
                 /\ orders' = c.book
                 /\ cancel_sent' = cancel_sent \cup SeqToSet(c.sent)
                      /\ Goto("monitor",
                         [active_games EXCEPT
                            ![ticker] = [c.game EXCEPT !.exiting = TRUE,
                                                       !.exit_reason = "reversion"]],
                         games_to_remove, now)
            ELSE /\ Anomalies(StatusFaults(orders, ExitIds(game.positions), ans))
                 /\ orders' = r.book
                 /\ cancel_sent' = cancel_sent
                 /\ Goto("monitor", active_games, games_to_remove, now)
    /\ UNCHANGED <<now, dry_run, bankroll, total_exposure, schedule, db_orders,
                   discoveries,
                   eligibility_log, args, ret, restarts>>
    /\ TickLog

\* lines 1358-1362: monitor_exit_orders while exiting; continue
MonitorExits ==
    /\ pc = "monitor"
    /\ \E ans \in AnswerSeqs(orders, game.exit_order_ids) :
        LET m == monitor_exit_orders(dry_run, game, orders, bankroll, ans)
        IN  /\ Anomalies(StatusFaults(orders, game.exit_order_ids, ans))
            /\ orders' = m.book
            /\ bankroll' = m.bankroll
            /\ Goto("end", [active_games EXCEPT ![ticker] = m.game],
                    IF m.done THEN games_to_remove \cup {ticker} ELSE games_to_remove,
                    now)
    /\ UNCHANGED <<now, dry_run, total_exposure, schedule, db_orders, cancel_sent,
                   discoveries,
                   eligibility_log, args, ret, restarts>>
    /\ TickLog

\* lines 1364-1371: entry
Entry ==
    /\ pc = "entry"
    /\ \E q1 \in QuoteAnswers, q2 \in QuoteAnswers,
          ans \in OutcomeSeqs(Len(Config.scaling_levels), LevelAnswers) :
        LET r == enter_position(dry_run, ticker, game, orders, db_orders, bankroll,
                                total_exposure, q1, q2, ans)
        IN  /\ Anomalies(LevelFaults(ans))
            /\ orders' = r.book
            /\ db_orders' = r.db
            /\ total_exposure' = r.total_exposure
            /\ Goto("exit_signal", [active_games EXCEPT ![ticker] = r.game],
                    games_to_remove, now)
    /\ UNCHANGED <<now, dry_run, bankroll, schedule, cancel_sent, discoveries,
                   eligibility_log, args, ret, restarts>>
    /\ TickLog

\* lines 1374-1378: the other exit signals (revert band, halftime)
ExitSignal ==
    /\ pc = "exit_signal"
    /\ \E qs \in QuoteAnswers, q \in QuoteAnswers,
          couts \in CancelSeqs(orders, game.order_ids),
          xouts \in CancelSeqs(orders, ExitIds(game.positions)),
          outs \in OutcomeSeqs(Len(game.positions), PlaceOutcomes) :
        IF check_exit_signal(game, now, qs)
        THEN LET r == exit_position(dry_run, ticker, game, orders,
                                    now >= game.halftime_ts, couts, xouts, q, outs)
             IN  /\ Anomalies(CancelFaults(orders, game.order_ids, couts)
                              + CancelFaults(orders, ExitIds(game.positions), xouts)
                              + PlaceFaults(outs))
                 /\ orders' = r.book
                 /\ cancel_sent' = cancel_sent \cup SeqToSet(r.sent)
                 /\ Goto("end", [active_games EXCEPT ![ticker] = r.game],
                         games_to_remove, now)
        ELSE /\ UNCHANGED <<orders, cancel_sent, anomalies>>
             /\ Goto("end", active_games, games_to_remove, now)
    /\ UNCHANGED <<now, dry_run, bankroll, total_exposure, schedule, db_orders,
                   discoveries,
                   eligibility_log, args, ret, restarts>>
    /\ TickLog

Next ==
    \/ StartTick
    \/ HalftimeTimeout
    \/ HalftimeCancelExits
    \/ HalftimeExit
    \/ Checkpoint
    \/ OrderFills
    \/ Reversion
    \/ MonitorExits
    \/ Entry
    \/ ExitSignal

Spec == Init /\ [][Next]_vars

\* run's while-loop keeps taking steps: whenever the engine can change its
\* state, it eventually does
FairSpec == Spec /\ WF_vars(Next)

----------------------------------------------------------------------------
(* The engine at the 30-minute checkpoint, over a range of prices *)

\* the prices sampled at the checkpoints, in cents, around the threshold
CheckpointPrices == {54, 55, 56, 57, 58, 59, 60}

CheckpointQuotes ==
    {[yes_ask |-> p, no_ask |-> 101 - p] : p \in CheckpointPrices} \cup {NoQuote}

\* market A 30 minutes before its kickoff, its 6-hour and 3-hour samples
\* captured, and the loop body about to call check_and_capture_checkpoint
EligibilityInit ==
    /\ schedule = [t \in {"A"} |-> 13]
    /\ now = schedule["A"] - THIRTY_MIN
    /\ dry_run \in BOOLEAN
    /\ bankroll = Config.bankroll
    /\ total_exposure = 0
    /\ \E p6 \in CheckpointPrices, p3 \in CheckpointPrices :
          active_games = [t \in {"A"} |->
              [GameMonitor(schedule[t]) EXCEPT !.odds_6h = p6, !.odds_3h = p3,
                                               !.pregame_prob = p6]]
    /\ orders = <<>>
    /\ db_orders = {}
    /\ pc = "checkpoint"
    /\ todo = <<"A">>
    /\ games_to_remove = {}
    /\ cancel_sent = {}
    /\ discoveries = [t \in Tickers |-> IF t = "A" THEN 1 ELSE 0]
    /\ anomalies = 0
    /\ eligibility_log = [t \in Tickers |-> <<>>]
    /\ args = <<>>
    /\ ret = <<>>
    /\ restarts = <<>>
    /\ tick_orders = 0

EligibilityNext == CheckpointOn(CheckpointQuotes)

EligibilitySpec == EligibilityInit /\ [][EligibilityNext]_vars

----------------------------------------------------------------------------
(* The engine at the entry of an eligible market, over a range of bankrolls *)

\* config['trading']['bankroll'], in cents: with the configured ladder the
\* sized notional is below the safety ceiling up to 600 and above it from 800
AdmissionBankrolls == {200, 400, 600, 800, 1000, 2000}

\* market A 30 minutes before its kickoff, decided eligible, and the loop
\* body about to call enter_position
AdmissionInit ==
    /\ schedule = [t \in {"A"} |-> 13]
    /\ now = schedule["A"] - THIRTY_MIN
    /\ dry_run \in BOOLEAN
    /\ bankroll \in AdmissionBankrolls
    /\ total_exposure = 0
    /\ active_games = [t \in {"A"} |->
          [GameMonitor(schedule[t]) EXCEPT !.odds_6h = 60, !.odds_3h = 60,
                                           !.odds_30m = 60, !.pregame_prob = 60,
                                           !.is_eligible = "True"]]
    /\ orders = <<>>
    /\ db_orders = {}
    /\ pc = "entry"
    /\ todo = <<"A">>
    /\ games_to_remove = {}
    /\ cancel_sent = {}
    /\ discoveries = [t \in Tickers |-> IF t = "A" THEN 1 ELSE 0]
    /\ anomalies = 0
    /\ eligibility_log = [t \in Tickers |->
          IF t = "A" THEN <<[is_eligible |-> "True", volume |-> "high"]>> ELSE <<>>]
    /\ args = <<>>
    /\ ret = <<>>
    /\ restarts = <<>>
    /\ tick_orders = 0

AdmissionNext ==
    \/ Entry
    \/ ExitSignal

AdmissionSpec == AdmissionInit /\ [][AdmissionNext]_vars

----------------------------------------------------------------------------
(* calculate_position_sizes applied on its own, over a range of arguments *)

\* a ladder has at most this many levels
MaxLevels == 3

\* bankrolls in cents, kelly fractions and exposure caps in percent
SizerBankrolls == {50, 200, 1000, 20000}
SizerKellyFractions == {1, 15, 25, 100}
SizerExposures == {1, 50, 100}
SizerLevels ==
    { [trigger |-> 1, kelly_mult |-> 10], [trigger |-> 49, kelly_mult |-> 10],
      [trigger |-> 45, kelly_mult |-> 15], [trigger |-> 33, kelly_mult |-> 30],
      [trigger |-> 99, kelly_mult |-> 30] }

\* the ladders of up to n levels
RECURSIVE Ladders(_)
Ladders(n) ==
    IF n = 0 THEN {<<>>}
    ELSE Ladders(n - 1) \cup
         {Append(l, v) : l \in {k \in Ladders(n - 1) : Len(k) = n - 1}, v \in SizerLevels}

\* bankroll $10,000, kelly fraction 0.15, max exposure 0.50 and the five
\* levels of analyze_kelly_realistic.py
ExampleArgs ==
    [ bankroll |-> 1000000, kelly_frac |-> 15, max_exposure |-> 50,
      levels_to_hit |-> << [trigger |-> 49, kelly_mult |-> 10],
                           [trigger |-> 45, kelly_mult |-> 15],
                           [trigger |-> 41, kelly_mult |-> 20],
                           [trigger |-> 37, kelly_mult |-> 25],
                           [trigger |-> 33, kelly_mult |-> 30] >> ]

SizerArgs ==
    {ExampleArgs} \cup
    { [bankroll |-> b, kelly_frac |-> k, max_exposure |-> m, levels_to_hit |-> l] :
        b \in SizerBankrolls, k \in SizerKellyFractions, m \in SizerExposures,
        l \in Ladders(MaxLevels) \ {<<>>} }

SizerInit ==
    /\ args \in SizerArgs
    /\ ret = <<>>
    /\ pc = "calculate_position_sizes"
    /\ now = 0
    /\ dry_run = FALSE
    /\ bankroll = args.bankroll
    /\ total_exposure = 0
    /\ active_games = [t \in {} |-> 0]
    /\ schedule = [t \in {} |-> 0]
    /\ orders = <<>>
    /\ db_orders = {}
    /\ todo = <<>>
    /\ games_to_remove = {}
    /\ cancel_sent = {}
    /\ discoveries = [t \in Tickers |-> 0]
    /\ anomalies = 0
    /\ eligibility_log = [t \in Tickers |-> <<>>]
    /\ restarts = <<>>
    /\ tick_orders = 0

\* the call returns
Sizer ==
    /\ pc = "calculate_position_sizes"
    /\ ret' = calculate_position_sizes(args.bankroll, args.kelly_frac, args.max_exposure,
                                       args.levels_to_hit)
    /\ pc' = "returned"
    /\ UNCHANGED <<now, dry_run, bankroll, total_exposure, active_games, schedule, orders,
                   db_orders, todo, games_to_remove, cancel_sent, discoveries, anomalies,
                   eligibility_log, args, restarts>>
    /\ TickLog

SizerNext == Sizer

SizerSpec == SizerInit /\ [][SizerNext]_vars

----------------------------------------------------------------------------
(* _place_exit_order on its own: one call for a new Position, live mode, over
   the entry prices, pregame baselines and revert fractions of the exchange's
   and the configuration's ranges *)

EntryPrices == 1..99
PregameBaselines == 1..100
\* revert_fraction, in percent
RevertFractions == {0, 25, 50, 75, 100}

BracketArgs ==
    [pregame_prob : PregameBaselines, entry_price : EntryPrices,
     revert_fraction : RevertFractions]

BracketInit ==
    /\ args \in BracketArgs
    /\ ret = <<>>
    /\ pc = "_place_exit_order"
    /\ now = 0
    /\ dry_run = FALSE
    /\ bankroll = Config.bankroll
    /\ total_exposure = 0
    /\ active_games = [t \in {} |-> 0]
    /\ schedule = [t \in {} |-> 0]
    /\ orders = <<>>
    /\ db_orders = {}
    /\ todo = <<>>
    /\ games_to_remove = {}
    /\ cancel_sent = {}
    /\ discoveries = [t \in Tickers |-> 0]
    /\ anomalies = 0
    /\ eligibility_log = [t \in Tickers |-> <<>>]
    /\ restarts = <<>>
    /\ tick_orders = 0

\* lines 686-713: the price is computed and the sell is sent with it; the
\* trading client passes the price on as it is (trading_client.py, 90-146)
Bracket ==
    /\ pc = "_place_exit_order"
    /\ \E outcome \in {"resting", "executed"} :
          orders' = place_order(orders, "A", "yes", "sell", 1,
                        ExitPriceAt(args.pregame_prob, args.entry_price,
                                    args.revert_fraction),
                        "limit", outcome, None, "_place_exit_order")
    /\ ret' = ExitPriceAt(args.pregame_prob, args.entry_price, args.revert_fraction)
    /\ pc' = "returned"
    /\ UNCHANGED <<now, dry_run, bankroll, total_exposure, active_games, schedule,
                   db_orders, todo, games_to_remove, cancel_sent, discoveries, anomalies,
                   eligibility_log, args, restarts>>
    /\ TickLog

BracketNext == Bracket

BracketSpec == BracketInit /\ [][BracketNext]_vars

----------------------------------------------------------------------------
(* Runs with a gateway that answers every placement and cancellation *)

\* a step in which no request fails and no status answer is odd
Calm(A) == A /\ anomalies' = anomalies

\* one market, live mode; requests fail only while the ladder is placed
\* (enter_position), every later placement and cancellation is answered
EntryFaultNext ==
    \/ Calm(StartTick)
    \/ Calm(HalftimeTimeout)
    \/ Calm(HalftimeCancelExits)
    \/ Calm(HalftimeExit)
    \/ Calm(Checkpoint)
    \/ Calm(OrderFills)
    \/ Calm(Reversion)
    \/ Calm(MonitorExits)
    \/ Entry
    \/ Calm(ExitSignal)

EntryFaultSpec == Start({"A"}, {FALSE}) /\ [][EntryFaultNext]_vars

\* one market, live mode, with a gateway that answers every placement and
\* cancellation (quote and status lookups may still fail); a market closed
\* before its kickoff is discovered again (run, lines 1259-1265)
RediscoveryNext ==
    \/ Calm(Tick(MaxRediscoveries, Nat))
    \/ Calm(HalftimeTimeout)
    \/ Calm(HalftimeCancelExits)
    \/ Calm(HalftimeExit)
    \/ Calm(Checkpoint)
    \/ Calm(OrderFills)
    \/ Calm(Reversion)
    \/ Calm(MonitorExits)
    \/ Calm(Entry)
    \/ Calm(ExitSignal)

RediscoverySpec == Start({"A"}, {FALSE}) /\ [][RediscoveryNext]_vars

\* a calm step taken while no market has begun its exit, after which the
\* exchange holds every buy order unfilled or filled whole and every sell
\* order unfilled
BeforeExit(A) ==
    /\ Calm(A)
    /\ \A t \in DOMAIN active_games : ~active_games[t].exiting
    /\ \A j \in 1..Len(orders') :
          /\ orders'[j].filled \in {0, orders'[j].count}
          /\ orders'[j].action = "sell" => orders'[j].filled = 0

\* two markets with the same kickoff, live mode, with the same gateway,
\* followed up to TwoMarketHorizon and until one of them begins its exit; no
\* halftime timeout is due and no exit order is monitored before that
TwoMarketNext ==
    \/ BeforeExit(Tick(MaxDiscoveries, 0..TwoMarketHorizon))
    \/ BeforeExit(Checkpoint)
    \/ BeforeExit(OrderFills)
    \/ BeforeExit(Reversion)
    \/ BeforeExit(Entry)
    \/ BeforeExit(ExitSignal)

TwoMarketSpec == Start(Tickers, {FALSE}) /\ [][TwoMarketNext]_vars

----------------------------------------------------------------------------
(* The engine is started late *)

\* the engine is started 30 minutes before the kickoff of the one scheduled
\* market, which it first observes inside the 30-minute window
LateStartSpec == StartAt({"A"}, BOOLEAN, 13 - THIRTY_MIN) /\ [][Next]_vars

----------------------------------------------------------------------------
(* The engine is stopped and started again *)

\* the engine is restarted at most this many times in one run
MaxRestarts == 1

\* the order ids the engine holds: in the pending lists, and as Positions
PendingHeld == UNION {SeqToSet(active_games[t].order_ids) : t \in DOMAIN active_games}

PositionsHeld ==
    UNION {{active_games[t].positions[i].order_id : i \in 1..Len(active_games[t].positions)} :
             t \in DOMAIN active_games}

\* the process stops between two ticks (or has stopped on an exception)
\* while it holds orders or Positions, and is started again:
\* LiveTrader.__init__ sets the bankroll from the
\* configuration and starts with no active game and no exposure (lines
\* 217-220); the exchange keeps its orders
Restart ==
    /\ pc \in {"sleep", "crashed"}
    /\ Len(restarts) < MaxRestarts
    /\ PendingHeld \cup PositionsHeld # {}
    /\ restarts' = Append(restarts, [pending |-> PendingHeld, open |-> PositionsHeld])
    /\ bankroll' = Config.bankroll
    /\ total_exposure' = 0
    /\ active_games' = [t \in {} |-> 0]
    /\ pc' = "sleep"
    /\ todo' = <<>>
    /\ games_to_remove' = {}
    /\ UNCHANGED <<now, dry_run, schedule, orders, db_orders, cancel_sent, discoveries,
                   anomalies, eligibility_log, args, ret, tick_orders>>

\* a calm step after which the exchange holds every order unfilled or filled
\* whole
Whole(A) ==
    /\ Calm(A)
    /\ \A j \in 1..Len(orders') : orders'[j].filled \in {0, orders'[j].count}

\* one market, live mode, with a gateway that answers every placement and
\* cancellation and fills orders whole; the engine may be restarted, and
\* discovers the market once more after each restart
RestartNext ==
    \/ Whole(Tick(MaxDiscoveries + Len(restarts), Nat))
    \/ Whole(HalftimeTimeout)
    \/ Whole(HalftimeCancelExits)
    \/ Whole(HalftimeExit)
    \/ Whole(Checkpoint)
    \/ Whole(OrderFills)
    \/ Whole(Reversion)
    \/ Whole(MonitorExits)
    \/ Whole(Entry)
    \/ Whole(ExitSignal)
    \/ Restart

RestartSpec == Start({"A"}, {FALSE}) /\ [][RestartNext]_vars

----------------------------------------------------------------------------
(* Properties *)

Games == DOMAIN active_games

\* the sell orders of market t on the exchange
SellsOf(book, t) ==
    {j \in 1..Len(book) : book[j].action = "sell" /\ book[j].ticker = t}

\* the sell orders placed for position p of market t of which the exchange
\* has filled a part
FilledSells(book, t, p) ==
    {j \in SellsOf(book, t) : book[j].for_order = p.order_id /\ book[j].filled > 0}

\* the market's exit has not begun, or began with a detected bracket fill,
\* and the market holds a Position of which nothing has been sold
BracketedOrReverting(t) ==
    /\ active_games[t].exit_reason \in {"none", "reversion"}
    /\ \E i \in 1..Len(active_games[t].positions) :
          FilledSells(orders, t, active_games[t].positions[i]) = {}

\* no request has failed and no status answer was odd so far
NoAnomaly == anomalies = 0

\* C1: deadline always wins.  When a tick starts at or past halftime_ts of a
\* market that holds open Positions and is Bracketed or Reverting, the tick
\* takes the market into the halftime timeout (its orders are cancelled and
\* flatten sells are asked for), even in a run without any gateway anomaly.
C1_DeadlineWins ==
    [][\A t \in Games :
          (/\ pc = "sleep"
           /\ NoAnomaly
           /\ BracketedOrReverting(t)
           /\ now' >= active_games[t].halftime_ts)
          => (pc' = "halftime" /\ Head(todo') = t)]_vars

\* a Reverting market is alive at its deadline
C1_RevertingAtDeadline ==
    \E t \in Games :
        /\ active_games[t].exit_reason = "reversion"
        /\ BracketedOrReverting(t)
        /\ now >= active_games[t].halftime_ts

\* the step closes market t: monitor_exit_orders returned True for it
Closes(t) ==
    /\ pc = "monitor" /\ Head(todo) = t
    /\ t \notin games_to_remove
    /\ t \notin DOMAIN active_games' \/ t \in games_to_remove'

\* the P&L the exchange owes for the positions: each position's executed sell
\* orders at their price against the position's entry price
TruePnl(t, positions, book) ==
    SumSeq([i \in 1..Len(positions) |->
        SumSeq([j \in 1..Len(book) |->
            IF /\ book[j].action = "sell" /\ book[j].ticker = t
               /\ book[j].for_order = positions[i].order_id
               /\ book[j].status \in {"executed", "gone"}
            THEN (book[j].price - positions[i].entry_price) * positions[i].size
            ELSE 0])])

\* every Position was sold by exactly one sell order, in full
SoldOnce(book, t, positions) ==
    \A i \in 1..Len(positions) :
        /\ Cardinality(FilledSells(book, t, positions[i])) = 1
        /\ \A j \in FilledSells(book, t, positions[i]) :
              book[j].status \in {"executed", "gone"}

\* C2: when a market is closed, each of its Positions sold once, the bankroll
\* changes by exactly the sum over the market's Positions of
\* (sell fill price - entry price) x size, even in a run without any gateway
\* anomaly.  (The bankroll does not change between the start of the exit and
\* the close.)
C2_ClosePnl ==
    [][\A t \in Games :
          (Closes(t) /\ NoAnomaly' /\ SoldOnce(orders', t, active_games[t].positions))
          => bankroll' - bankroll = TruePnl(t, active_games[t].positions, orders')]_vars

\* a market was closed with two Positions
C2_ClosedTwo ==
    /\ Games = {}
    /\ Cardinality({j \in 1..Len(orders) :
            orders[j].action = "sell" /\ orders[j].status \in {"executed", "gone"}}) >= 2
    /\ \E t \in Tickers : discoveries[t] > 0

\* C3: a market holds at most one Position per buy order identifier.
C3_OnePositionPerOrder ==
    \A t \in Games :
        \A i, j \in 1..Len(active_games[t].positions) :
            active_games[t].positions[i].order_id = active_games[t].positions[j].order_id
            => i = j

\* a buy order observed partly filled (its Position holds the part) was
\* polled again, observed fully filled, and left the pending list
C3_PolledAgain ==
    ~dry_run /\ \E t \in Games :
        \E i \in 1..Len(active_games[t].positions) :
            LET p == active_games[t].positions[i]
            IN  /\ orders[p.order_id].status = "executed"
                /\ p.size < orders[p.order_id].count
                /\ ~InSeq(p.order_id, active_games[t].order_ids)

\* the buy orders of market t on the exchange
BuysOf(book, t) ==
    {j \in 1..Len(book) : book[j].action = "buy" /\ book[j].ticker = t}

\* C4: reversion stops scaling.  In the step that detects a bracket-sell
\* fill every pending buy order is sent a cancel request and the pending list
\* is empty afterwards; from then on no step places a buy order for the
\* market or adds to its pending list.
C4_ReversionStopsScaling ==
    [][\A t \in Games \cap DOMAIN active_games' :
          LET g == active_games[t]
              h == active_games'[t]
          IN  /\ (g.exit_reason # "reversion" /\ h.exit_reason = "reversion")
                 => (/\ h.order_ids = <<>>
                     /\ SeqToSet(g.order_ids) \subseteq cancel_sent'
                     /\ BuysOf(orders', t) = BuysOf(orders, t))
              /\ g.exit_reason = "reversion"
                 => (/\ h.exit_reason = "reversion"
                     /\ h.order_ids = <<>>
                     /\ BuysOf(orders', t) = BuysOf(orders, t))]_vars

\* a bracket fill was detected while a buy order was pending, and the buy
\* order was sent a cancel request
C4_RevertingCancelled ==
    \E t \in Games :
        /\ active_games[t].exit_reason = "reversion"
        /\ \E o \in cancel_sent : orders[o].action = "buy" /\ orders[o].ticker = t

\* all Positions of g are on the side recorded for g, the side its buy
\* orders were placed on
SameSide(g, book) ==
    \A i \in 1..Len(g.positions) :
        /\ g.positions[i].side = g.position_side
        /\ g.positions[i].order_id \in 1..Len(book)
           => book[g.positions[i].order_id].side = g.position_side

\* C5: no double-sided exposure.  All open Positions of a market are on the
\* favourite side determined when its ladder was placed, and the recorded
\* side never changes once the ladder is placed.
C5_OneSide ==
    [][/\ \A t \in DOMAIN active_games' : SameSide(active_games'[t], orders')
       /\ \A t \in Games \cap DOMAIN active_games' :
              active_games[t].triggered
              => active_games'[t].position_side = active_games[t].position_side]_vars

\* two Positions are open on the no side
C5_TwoPositionsOnNo ==
    \E t \in Games :
        /\ Len(active_games[t].positions) = 2
        /\ active_games[t].position_side = "no"
        /\ \A i \in 1..2 : active_games[t].positions[i].side = "no"

\* every Position of market t has a sell order, and every sell order of the
\* market has been reported filled
AllSellsFilled(t) ==
    /\ t \in Games
    /\ active_games[t].positions # <<>>
    /\ \A i \in 1..Len(active_games[t].positions) :
          \E j \in SellsOf(orders, t) :
              orders[j].for_order = active_games[t].positions[i].order_id
    /\ \A j \in SellsOf(orders, t) : orders[j].status \in {"executed", "gone"}

\* all Positions of market t were exited by their bracket sells alone, in a
\* run without any gateway anomaly
BracketOnlyExit(t) ==
    AllSellsFilled(t) /\ active_games[t].exit_reason = "reversion" /\ NoAnomaly

\* C6: whenever every sell order of a market has been reported filled, the
\* market is eventually closed and removed from the active set; stated for
\* the case that all its Positions were exited by their bracket sells alone.
C6_EventuallyClosed ==
    \A t \in Tickers : BracketOnlyExit(t) ~> (t \notin Games)

\* all Positions of a market were exited by their bracket sells alone
C6_BracketOnly ==
    \E t \in Tickers : BracketOnlyExit(t)

\* the step polls the pending buy order o of market t, and the exchange
\* answers not-found for the first time
NotFoundNow(t, o) ==
    /\ pc = "fills" /\ Head(todo) = t
    /\ InSeq(o, active_games[t].order_ids)
    /\ o \in 1..Len(orders)
    /\ orders[o].status # "gone"
    /\ orders'[o].status = "gone"

HasPositionFor(g, o) == \E i \in 1..Len(g.positions) : g.positions[i].order_id = o

\* C7: when the status lookup of a pending buy order answers not-found and
\* the order is recorded locally, a Position with the recorded size and price
\* is created for it, with a bracket sell, and the order leaves the pending
\* list.
C7_NotFoundRecorded ==
    [][\A t \in Games : \A o \in SeqToSet(active_games[t].order_ids) :
          (NotFoundNow(t, o) /\ get_order(db_orders, o))
          => (/\ \E i \in 1..Len(active_games'[t].positions) :
                    LET p == active_games'[t].positions[i]
                    IN  /\ p.order_id = o
                        /\ p.size = orders[o].count
                        /\ p.entry_price = orders[o].price
                        /\ p.exit_order_id # None
              /\ ~InSeq(o, active_games'[t].order_ids))]_vars

C9_LeavesPendingConfirmed ==
    [][~dry_run =>
        \A t \in Games \cap DOMAIN active_games' :
          \A o \in SeqToSet(active_games[t].order_ids) :
              ~InSeq(o, active_games'[t].order_ids)
              => orders'[o].status \in {"executed", "gone", "canceled"}]_vars

\* C10: in dry-run mode the step that places a ladder turns every buy order
\* into a Position with the requested size and price, and no step changes the
\* exchange's orders or sends a cancel request.
C10_DryRunFills ==
    [][dry_run =>
        /\ orders' = orders
        /\ cancel_sent' = cancel_sent
        /\ \A t \in Games \cap DOMAIN active_games' :
              (~active_games[t].triggered /\ active_games'[t].triggered)
              => LET sized == calculate_position_sizes(bankroll, Config.kelly_fraction,
                                Config.max_exposure_pct, Config.scaling_levels)
                     ps == active_games'[t].positions
                 IN  /\ Len(ps) = Len(sized)
                     /\ \A i \in 1..Len(sized) :
                            ps[i].entry_price = sized[i][1] /\ ps[i].size = sized[i][2]]_vars

\* a ladder was placed in dry-run mode
C10_DryRunLadder ==
    dry_run /\ \E t \in Games : active_games[t].triggered

\* the orders the step places
PlacedNow == (Len(orders) + 1)..Len(orders')

\* the bracket sells the engine holds for the Positions of g
PendingExitIds(g) == SeqToSet(ExitIds(g.positions)) \ {None}

\* the orders in js are limit sells of market t, each for a Position of g
\* with the Position's side and size, no two for the same Position
FlattenSells(t, g, js, book) ==
    /\ \A j \in js :
          /\ book[j].ticker = t /\ book[j].action = "sell" /\ book[j].type = "limit"
          /\ \E i \in 1..Len(g.positions) :
                /\ g.positions[i].order_id = book[j].for_order
                /\ g.positions[i].size = book[j].count
                /\ g.positions[i].side = book[j].side
    /\ \A j, k \in js : book[j].for_order = book[k].for_order => j = k

\* C11: in deadline flattening (live mode) the cancel requests for all of the
\* market's pending buy orders and then for all of its outstanding bracket
\* sells are sent in steps that place no order; only the step after them
\* places the flatten sells, and it sends no cancel request.  Every flatten
\* sell is a limit sell for one Position, no two for the same Position, and
\* when the quote is there and no placement fails there is one per Position.
\* No order of any kind is a market order.
C11_CancelBeforeFlatten ==
    [][~dry_run =>
        /\ \A j \in PlacedNow :
              /\ orders'[j].type = "limit"
              /\ orders'[j].placed_by = "exit_position_at_halftime" => pc = "halftime_exit"
        /\ pc = "halftime" =>
              /\ SeqToSet(game.order_ids) \subseteq cancel_sent'
              /\ PlacedNow = {}
        /\ pc = "halftime_cancel_exits" =>
              /\ game.order_ids = <<>>
              /\ PendingExitIds(game) \subseteq cancel_sent'
              /\ PlacedNow = {}
        /\ pc = "halftime_exit" =>
              /\ game.order_ids = <<>>
              /\ \A j \in SellsOf(orders, ticker) :
                    (\E i \in 1..Len(game.positions) :
                        game.positions[i].order_id = orders[j].for_order)
                    => j \in cancel_sent
              /\ cancel_sent' = cancel_sent
              /\ FlattenSells(ticker, game, PlacedNow, orders')
              /\ (/\ active_games'[ticker].exiting
                  /\ anomalies' = anomalies
                  /\ Len(orders) + Len(game.positions) <= MaxOrders)
                 => Cardinality(PlacedNow) = Len(game.positions)
        /\ (pc = "exit_signal" /\ PlacedNow # {}) =>
              /\ SeqToSet(game.order_ids) \subseteq cancel_sent'
              /\ PendingExitIds(game) \subseteq cancel_sent'
              /\ FlattenSells(ticker, game, PlacedNow, orders')]_vars

\* a flatten sell was placed at the deadline after a pending buy order and a
\* bracket sell of the market had been sent cancel requests
C11_Flattened ==
    /\ ~dry_run
    /\ \E j \in 1..Len(orders) :
          /\ orders[j].placed_by = "exit_position_at_halftime"
          /\ \E b \in cancel_sent : orders[b].action = "buy" /\ orders[b].ticker = orders[j].ticker
          /\ \E x \in cancel_sent : orders[x].action = "sell" /\ orders[x].ticker = orders[j].ticker

\* the sells placed for Position p of market t by the exit methods
ExitSellsFor(book, t, p) ==
    {j \in SellsOf(book, t) :
        /\ book[j].for_order = p.order_id
        /\ book[j].placed_by \in {"exit_position_at_halftime", "exit_position"}}

\* C12: re-running the Reverting or deadline-flattening logic does not
\* double-cancel or double-place.  The cancel requests a step of that logic
\* sends (live mode) go to orders that were never sent one before, and every
\* Position has at most one sell placed by the exit methods.
C12_NoDoubleCancel ==
    /\ (~dry_run /\ pc \in {"halftime", "reversion"}) =>
          \A couts \in CancelSeqs(orders, game.order_ids) :
              SeqToSet(cancel_pending_orders(dry_run, game, orders, couts).sent)
                  \cap cancel_sent = {}
    /\ (~dry_run /\ pc = "halftime_cancel_exits") =>
          \A xouts \in CancelSeqs(orders, ExitIds(game.positions)) :
              SeqToSet(cancel_exit_orders(dry_run, game, orders, xouts).sent)
                  \cap cancel_sent = {}
    /\ \A t \in Games : \A i \in 1..Len(active_games[t].positions) :
          Cardinality(ExitSellsFor(orders, t, active_games[t].positions[i])) <= 1

\* a tick enters the halftime timeout of a market whose sells were sent
\* cancel requests by an earlier tick
C12_FlatteningReentered ==
    /\ ~dry_run /\ pc = "halftime"
    /\ \E x \in cancel_sent : orders[x].action = "sell" /\ orders[x].ticker = ticker

\* C13: at all times the number of active markets that hold open Positions
\* is at most max_concurrent_games.
C13_ConcurrencyCap ==
    ActivePositions(active_games) <= Config.max_concurrent_games

\* two markets were admitted before any of their orders had filled
C13_TwoAdmitted ==
    /\ Cardinality({t \in Games : active_games[t].triggered}) = 2
    /\ \A t \in Games : active_games[t].positions = <<>>

\* C14: a market with a placed ladder (triggered flag set, pending buy
\* orders, or Positions) has its eligibility decided, as eligible; so has
\* every market a buy order was placed for.
C14_EligibleBeforeOrders ==
    /\ \A t \in Games :
          LET g == active_games[t]
          IN  (g.triggered \/ g.order_ids # <<>> \/ g.positions # <<>>)
              => g.is_eligible = "True"
    /\ \A t \in Tickers :
          BuysOf(orders, t) # {}
          => (eligibility_log[t] # <<>> /\ eligibility_log[t][1].is_eligible = "True")

\* a market holds a pending buy order and a Position
C14_LadderPlaced ==
    \E t \in Games :
        /\ active_games[t].triggered
        /\ active_games[t].order_ids # <<>>
        /\ active_games[t].positions # <<>>

\* C15: when the 30-minute checkpoint is captured and the volume veto does
\* not apply (the traded volume is not below the floor), the market is
\* eligible iff at least one of its three samples is >= 57 cents and the
\* 30-minute sample is not < 57 cents; (60, 59, 55) and (54, 55, 56) are
\* ineligible and (54, 55, 58) is eligible.
C15_EligibilityRule ==
    \A t \in Games :
        LET g == active_games[t]
            samples == <<g.odds_6h, g.odds_3h, g.odds_30m>>
        IN  (g.odds_30m # None /\ eligibility_log[t][1].volume = "high")
            => /\ (g.is_eligible = "True")
                    <=> ((\E i \in 1..3 : samples[i] >= 57) /\ ~(g.odds_30m < 57))
               /\ g.is_eligible \in {"True", "False"}
               /\ samples = <<60, 59, 55>> => g.is_eligible = "False"
               /\ samples = <<54, 55, 58>> => g.is_eligible = "True"
               /\ samples = <<54, 55, 56>> => g.is_eligible = "False"

\* the samples (60, 59, 55) were captured and the lookup answered a volume
\* above the floor
C15_VetoExample ==
    \E t \in Games :
        /\ <<active_games[t].odds_6h, active_games[t].odds_3h, active_games[t].odds_30m>>
              = <<60, 59, 55>>
        /\ eligibility_log[t] # <<>>
        /\ eligibility_log[t][1].volume = "high"
        /\ pc # "crashed"

\* C16: per market, eligibility is decided at most once, and once decided
\* it keeps its value on every later tick.
C16_DecidedOnce ==
    [][\A t \in Tickers :
          /\ eligibility_log[t] # <<>> => eligibility_log'[t] = eligibility_log[t]
          /\ (t \in Games /\ t \in DOMAIN active_games'
               /\ active_games[t].is_eligible # "None")
              => active_games'[t].is_eligible = active_games[t].is_eligible]_vars

\* a market whose eligibility was decided was closed and discovered again
C16_Rediscovered ==
    \E t \in Games : discoveries[t] > 1 /\ eligibility_log[t] # <<>>

\* C17: a market whose trailing 30-day volume is below the floor when its
\* eligibility is decided is made ineligible, whatever its samples and
\* whether or not the volume lookup fails, and no buy order is placed for it.
C17_LowVolumeIneligible ==
    \A t \in Tickers : \A k \in 1..Len(eligibility_log[t]) :
        eligibility_log[t][k].volume = "low"
        => (eligibility_log[t][k].is_eligible = "False" /\ BuysOf(orders, t) = {})

\* the eligibility of a market with a volume below the floor was decided
\* and the veto applied
C17_LowVolumeDecided ==
    \E t \in Games :
        /\ eligibility_log[t] # <<>>
        /\ eligibility_log[t][1].volume = "low"
        /\ active_games[t].is_eligible = "False"

\* the total notional of a sized ladder and the cap, in hundredths of a cent
Notional(sized) == 100 * TotalCapital(sized)

\* C18: the total notional of the ladder calculate_position_sizes returns is
\* at most bankroll x max_exposure plus one dollar per level.
C18_SizingCap ==
    pc = "returned"
    => Notional(ret) <= MaxCapitalAllowed(args.bankroll, args.max_exposure)
                        + 10000 * Len(args.levels_to_hit)

\* a ladder was scaled down and its notional is above bankroll x max_exposure
C18_ScaledAboveCap ==
    /\ pc = "returned"
    /\ ~WithinCap(args.bankroll, args.kelly_frac, args.max_exposure, args.levels_to_hit)
    /\ Len(ret) = MaxLevels
    /\ Notional(ret) > MaxCapitalAllowed(args.bankroll, args.max_exposure)

\* the sizes of a sized ladder
Sizes(sized) == [i \in 1..Len(sized) |-> sized[i][2]]

\* C19 as the code computes it: for bankroll $10,000, kelly fraction 0.15,
\* max exposure 0.50 and the five levels, the ideal sizes are
\* [3061, 4999, 7316, 10135, 13635] with an ideal notional of $14,998.50,
\* above the $5,000 cap, and the sizes returned are scaled down to
\* [1020, 1666, 2438, 3378, 4545].
C19_ExampleScaled ==
    (pc = "returned" /\ args = ExampleArgs)
    => /\ IdealSizes(args.bankroll, args.kelly_frac, args.levels_to_hit)
            = <<3061, 4999, 7316, 10135, 13635>>
       /\ TotalIdealCapital(args.bankroll, args.kelly_frac, args.levels_to_hit) = 1499850
       /\ ~WithinCap(args.bankroll, args.kelly_frac, args.max_exposure, args.levels_to_hit)
       /\ Sizes(ret) = <<1020, 1666, 2438, 3378, 4545>>

\* C19 as stated: for the same arguments the ideal sizes are
\* [30, 45, 73, 101, 136], within the cap, and are returned unchanged.
C19_ExampleAsStated ==
    (pc = "returned" /\ args = ExampleArgs)
    => /\ IdealSizes(args.bankroll, args.kelly_frac, args.levels_to_hit)
            = <<30, 45, 73, 101, 136>>
       /\ WithinCap(args.bankroll, args.kelly_frac, args.max_exposure, args.levels_to_hit)
       /\ Sizes(ret) = <<30, 45, 73, 101, 136>>

\* the call with the example's arguments has returned
C19_ExampleReturned ==
    pc = "returned" /\ args = ExampleArgs

\* C20: when the sizes are scaled down, a level with an ideal size at most
\* another level's gets a final size at most the other's, and every final
\* size is at least 1 and at most its ideal size.
C20_ScaleDownKeepsOrder ==
    (pc = "returned"
     /\ ~WithinCap(args.bankroll, args.kelly_frac, args.max_exposure, args.levels_to_hit))
    => LET ideal == IdealSizes(args.bankroll, args.kelly_frac, args.levels_to_hit)
           final == Sizes(ret)
       IN  /\ Len(final) = Len(ideal)
           /\ \A i, j \in 1..Len(ideal) : ideal[i] <= ideal[j] => final[i] <= final[j]
           /\ \A i \in 1..Len(ideal) : 1 <= final[i] /\ final[i] <= ideal[i]

\* a ladder was scaled down to sizes that differ, below their ideal sizes,
\* with one level raised to one contract
C20_ScaledUnequal ==
    /\ pc = "returned"
    /\ ~WithinCap(args.bankroll, args.kelly_frac, args.max_exposure, args.levels_to_hit)
    /\ \E i, j \in 1..Len(ret) :
          /\ ret[i][2] = 1
          /\ ret[j][2] > 1
          /\ ret[j][2] < IdealSizes(args.bankroll, args.kelly_frac, args.levels_to_hit)[j]

\* the ladder enter_position sizes for the bankroll
SizedLadder ==
    calculate_position_sizes(bankroll, Config.kelly_fraction, Config.max_exposure_pct,
                             Config.scaling_levels)

\* C21: when the sized ladder's total notional exceeds max_total_exposure,
\* the step of enter_position sends no order and no cancel request and
\* leaves the market as it was (untriggered, pending list, Positions and
\* favorite side unchanged), and the running exposure and the telemetry
\* records are unchanged.
C21_AllOrNothing ==
    [][(pc = "entry" /\ TotalCapital(SizedLadder) > Config.max_total_exposure)
        => /\ orders' = orders
           /\ cancel_sent' = cancel_sent
           /\ db_orders' = db_orders
           /\ total_exposure' = total_exposure
           /\ ticker \in DOMAIN active_games'
           /\ active_games'[ticker] = game
           /\ ~game.triggered]_vars

\* enter_position has returned for a ladder above the ceiling
C21_LadderAbandoned ==
    /\ pc = "sleep"
    /\ TotalCapital(SizedLadder) > Config.max_total_exposure
    /\ \E t \in Games : ~active_games[t].triggered /\ active_games[t].is_eligible = "True"

\* C22: telemetry failures do not alter trading.  Whenever the pending
\* orders of a market are polled, for every answer of the gateway the
\* resulting pending list, Positions and orders are the same whichever of
\* the market's orders the telemetry sink has recorded.
C22_TelemetryIndependent ==
    pc = "fills"
    => \A ans \in AnswerSeqs(orders, game.order_ids),
          exits \in OutcomeSeqs(Len(game.order_ids), PlaceOutcomes),
          db \in SUBSET SeqToSet(game.order_ids) :
            check_order_fills(dry_run, ticker, game, db, orders, ans, exits)
                = check_order_fills(dry_run, ticker, game, db_orders, orders, ans, exits)

\* the pending orders of a market are polled after the telemetry write for
\* one of them failed
C22_UnrecordedPolled ==
    /\ pc = "fills"
    /\ \E i \in 1..Len(game.order_ids) : game.order_ids[i] \notin db_orders
    /\ \E i \in 1..Len(game.order_ids) : game.order_ids[i] \in db_orders

\* C23: after a restart the orders and Positions the engine held remain
\* under its control.  At the end of every tick after a restart, a buy order
\* that was pending before the restart and is still resting, with no cancel
\* request sent, is in the pending list of an active market; and at the end
\* of every tick at or after the deadline of its market, a Position that was
\* open before the restart has a sell order placed by the exit methods or a
\* sell order that filled.
C23_ControlAfterRestart ==
    [][(restarts # <<>> /\ restarts' = restarts /\ pc' = "sleep")
        => LET r == restarts[Len(restarts)]
           IN  /\ \A id \in r.pending :
                     (orders'[id].status = "resting" /\ id \notin cancel_sent')
                     => \E t \in DOMAIN active_games' : InSeq(id, active_games'[t].order_ids)
               /\ \A id \in r.open :
                     now' >= schedule[orders[id].ticker] + HALFTIME_OFFSET
                     => \E j \in SellsOf(orders', orders[id].ticker) :
                          /\ orders'[j].for_order = id
                          /\ \/ orders'[j].placed_by
                                   \in {"exit_position_at_halftime", "exit_position"}
                             \/ orders'[j].filled > 0]_vars

\* the engine was restarted while it held a pending buy order and a Position
C23_RestartedHolding ==
    /\ restarts # <<>>
    /\ restarts[1].pending # {}
    /\ restarts[1].open # {}

\* C24: a market first observed when its time-to-kickoff is within the
\* 30-minute window captures only the 30-minute checkpoint: its 6-hour and
\* 3-hour samples are unset in every state.
C24_OnlyThirtyMinute ==
    \A t \in Games :
        /\ active_games[t].odds_6h = None
        /\ active_games[t].odds_3h = None

\* a market first observed inside the 30-minute window has had a checkpoint
\* captured
C24_LateCaptured ==
    \E t \in Games :
        /\ active_games[t].kickoff_ts - now <= THIRTY_MIN
        /\ \E odds \in {active_games[t].odds_6h, active_games[t].odds_3h,
                         active_games[t].odds_30m} : odds # None

\* the checkpoint samples of a game
Samples(g) == <<g.odds_6h, g.odds_3h, g.odds_30m>>

\* the checkpoint check_and_capture_checkpoint asks a quote for, 0 if none
DueCheckpoint(g, now_) ==
    IF g.kickoff_ts - now_ <= SIX_HOURS /\ g.odds_6h = None THEN 1
    ELSE IF g.kickoff_ts - now_ <= THREE_HOURS /\ g.odds_3h = None THEN 2
    ELSE IF g.kickoff_ts - now_ <= THIRTY_MIN /\ g.odds_30m = None THEN 3
    ELSE 0

\* C25: when the quote is unavailable on a tick where a checkpoint is due,
\* check_and_capture_checkpoint leaves the game as it was: a step of it that
\* changes no sample changes nothing of the game, eligibility included, and
\* the same checkpoint is still the one due; a tick processes every market
\* with a checkpoint due.
C25_NoQuoteNoChange ==
    [][/\ pc = "checkpoint" =>
            /\ \A volume \in VolumeAnswers :
                  check_and_capture_checkpoint(game, now, NoQuote, volume) = game
            /\ ticker \in DOMAIN active_games'
            /\ Samples(active_games'[ticker]) = Samples(game)
               => /\ active_games'[ticker] = game
                  /\ pc' # "crashed"
                  /\ DueCheckpoint(game, now') = DueCheckpoint(game, now)
                  /\ DueCheckpoint(game, now) # 0
       /\ pc = "sleep" =>
            \A t \in DOMAIN active_games' :
                DueCheckpoint(active_games'[t], now') # 0
                => (pc' \in {"halftime", "checkpoint"} /\ InSeq(t, todo'))]_vars

\* the 6-hour checkpoint of a market stayed uncaptured on the tick where it
\* was first due, and a later tick asks for it again, eligibility unknown
C25_Retried ==
    /\ pc = "checkpoint"
    /\ DueCheckpoint(game, now) = 1
    /\ game.is_eligible = "None"
    /\ now > game.kickoff_ts - SIX_HOURS

\* the samples of g were captured in the order 6h, 3h, 30m, and its
\* eligibility is decided only with all three
CapturedInOrder(g) ==
    /\ g.odds_3h # None => g.odds_6h # None
    /\ g.odds_30m # None => g.odds_3h # None
    /\ g.is_eligible # "None" => \A i \in 1..3 : Samples(g)[i] # None

\* C26: in every reachable state a set 3h sample implies a set 6h sample, a
\* set 30m sample implies a set 3h sample and a decided eligibility implies
\* that all three are set.  A step changes at most one sample of a game, only
\* in check_and_capture_checkpoint, which the tick does not call again for
\* the game, and a set sample keeps its value.
C26_CheckpointOrder ==
    [][\A t \in Games :
          LET g == active_games[t]
          IN  /\ CapturedInOrder(g)
              /\ t \in DOMAIN active_games' =>
                    LET g1 == active_games'[t]
                    IN  /\ CapturedInOrder(g1)
                        /\ \A i \in 1..3 :
                              Samples(g)[i] # None => Samples(g1)[i] = Samples(g)[i]
                        /\ Cardinality({i \in 1..3 : Samples(g1)[i] # Samples(g)[i]}) <= 1
                        /\ Samples(g1) # Samples(g)
                           => /\ pc = "checkpoint" /\ t = ticker
                              /\ ~(pc' = "checkpoint" /\ Head(todo') = t)]_vars

\* the 3-hour checkpoint is captured on the tick after the 6-hour checkpoint,
\* which was captured late, inside the 3-hour window
C26_CapturedLate ==
    \E t \in Games :
        /\ active_games[t].kickoff_ts - now <= THREE_HOURS
        /\ active_games[t].kickoff_ts - now > THIRTY_MIN
        /\ active_games[t].odds_6h # None
        /\ active_games[t].odds_3h # None
        /\ pc = "sleep"

\* the buys of this step that the gateway reported as fully executed in its
\* placement response
ExecutedAtPlacement ==
    {i \in PlacedNow : /\ orders'[i].placed_by = "enter_position"
                       /\ orders'[i].status = "executed"}

\* the positions of g opened for order i
PositionsFor(g, i) == {k \in 1..Len(g.positions) : g.positions[k].order_id = i}

\* C27: a buy whose placement response reports full execution is not added
\* to the pending list; in the same step it becomes exactly one Position with
\* the requested size and price, and a bracket sell of that size is placed
\* for the Position unless the gateway refuses the placement.
C27_ExecutedToPosition ==
    [][pc = "entry" =>
         \A i \in ExecutedAtPlacement :
            LET g1 == active_games'[ticker]
            IN  /\ ~InSeq(i, g1.order_ids)
                /\ Cardinality(PositionsFor(g1, i)) = 1
                /\ PositionsFor(game, i) = {}
                /\ \A k \in PositionsFor(g1, i) :
                      /\ g1.positions[k].size = orders'[i].count
                      /\ g1.positions[k].entry_price = orders'[i].price
                      /\ g1.positions[k].side = orders'[i].side
                      /\ (anomalies' = anomalies /\ Len(orders') < MaxOrders)
                         => /\ g1.positions[k].exit_order_id \in PlacedNow
                            /\ LET x == orders'[g1.positions[k].exit_order_id]
                               IN  /\ x.action = "sell" /\ x.for_order = i
                                   /\ x.count = orders'[i].count
                                   /\ x.side = orders'[i].side
                                   /\ x.placed_by = "_place_exit_order"]_vars

\* the ladder was placed and one of its buys was executed at placement, while
\* another one rests
C27_ExecutedAtEntry ==
    /\ pc = "exit_signal"
    /\ game.triggered /\ game.order_ids # <<>>
    /\ \E k \in 1..Len(game.positions) :
          LET p == game.positions[k]
          IN  /\ p.order_id \in 1..Len(orders)
              /\ orders[p.order_id].placed_by = "enter_position"
              /\ p.exit_order_id \in 1..Len(orders)
              /\ orders[p.exit_order_id].for_order = p.order_id
              /\ p.exit_order_id = p.order_id + 1

\* the exchange's price bounds, in cents
PriceBounds == 1..99

\* C28: for every entry price in 1..99 cents, pregame baseline in 1..100
\* cents and revert_fraction in [0,1], the bracket sell price sent to the
\* gateway is within 1..99 cents.
C28_PriceWithinBounds ==
    \A i \in 1..Len(orders) :
        orders[i].placed_by = "_place_exit_order" => orders[i].price \in PriceBounds

\* the bracket sell of a Position entered at 49 cents, with a pregame baseline
\* of 100 cents and a revert_fraction of 1.0, was sent
C28_FullRevertSent ==
    /\ pc = "returned"
    /\ args = [pregame_prob |-> 100, entry_price |-> 49, revert_fraction |-> 100]
    /\ Len(orders) = 1
    /\ orders[1].price = ret

\* this step is the one in which the reversion of the market is detected
ReversionDetected ==
    /\ pc = "reversion"
    /\ ~game.exiting
    /\ active_games'[ticker].exiting

\* the sells placed for market t since the running tick began
SellsThisTick(book, t) ==
    {i \in (tick_orders + 1)..Len(book) : book[i].ticker = t /\ book[i].action = "sell"}

\* from the detection on, the tick places no order, sends cancel requests
\* for buys only and leaves the bracket-sell reference of every Position as
\* it is
TransitionLeavesSells ==
    /\ ReversionDetected
       => /\ PlacedNow = {}
          /\ \A id \in cancel_sent' \ cancel_sent :
                orders[id].action = "buy" /\ InSeq(id, game.order_ids)
          /\ ExitIds(active_games'[ticker].positions) = ExitIds(game.positions)
    /\ (pc = "monitor" /\ game.exiting)
       => PlacedNow = {} /\ cancel_sent' = cancel_sent

\* C29 as stated: on the tick that detects the first filled bracket sell of a
\* market the engine places no sell order and cancels no sell order for that
\* market, and the bracket-sell reference of every Position is unchanged.
C29_NoSellOnReversionTick ==
    [][/\ TransitionLeavesSells
       /\ ReversionDetected => SellsThisTick(orders', ticker) = {}]_vars

\* C29, amended: the Bracketed-to-Reverting transition and the rest of its
\* tick place no order, cancel buys only and leave the bracket-sell reference
\* of every Position unchanged; the fill check that runs earlier in the same
\* tick may still have placed the bracket sell of a buy it found filled.
C29_TransitionLeavesSells == [][TransitionLeavesSells]_vars

\* the tick is over on which the reversion was detected, the remaining buy
\* was cancelled and, before that, the fill check placed a bracket sell
C29_SoldBeforeDetection ==
    /\ pc = "sleep"
    /\ \E t \in Games :
          /\ active_games[t].exiting /\ active_games[t].exit_reason = "reversion"
          /\ SellsThisTick(orders, t) # {}
          /\ \E id \in cancel_sent : orders[id].ticker = t /\ orders[id].action = "buy"

\* the open positions of g that have no bracket sell
Unbracketed(g) == {k \in 1..Len(g.positions) : g.positions[k].exit_order_id = None}

\* C30: a Position whose bracket-sell placement failed gets the placement
\* retried on a later tick: when a tick ends in which no request failed and
\* that placed no order, no Position of a market that is not being exited is
\* without a bracket sell.
C30_BracketRetried ==
    (pc = "sleep" /\ tick_orders = Len(orders) /\ Len(orders) < MaxOrders)
    => \A t \in Games : ~active_games[t].exiting => Unbracketed(active_games[t]) = {}

\* the deadline is reached with a Position that still has no bracket sell
C30_UnbracketedAtDeadline ==
    /\ pc = "halftime"
    /\ Len(orders) < MaxOrders
    /\ Unbracketed(game) # {}

RemovedAsFilled ==
    {id \in SeqToSet(game.order_ids) \cap (1..Len(orders')) :
        /\ ~InSeq(id, active_games'[ticker].order_ids)
        /\ orders'[id].status = "executed"}

\* C32: when a buy order is removed from the pending list as filled, the
\* Position created for it has the order's final filled count as its size and
\* its bracket sell covers the same quantity, also when the order was first
\* seen partially filled.
C32_PositionHasFinalFill ==
    [][pc = "fills" =>
         \A id \in RemovedAsFilled :
            LET g1 == active_games'[ticker]
            IN  \A k \in PositionsFor(g1, id) :
                  /\ g1.positions[k].size = orders'[id].filled
                  /\ g1.positions[k].exit_order_id \in 1..Len(orders')
                     => orders'[g1.positions[k].exit_order_id].count = orders'[id].filled]_vars

\* no request has failed; an order that filled completely has left the
\* pending list and its Position is smaller than the fill
C32_PartialThenFull ==
    /\ anomalies = 0
    /\ \E t \in Games :
          \E k \in 1..Len(active_games[t].positions) :
             LET p == active_games[t].positions[k]
             IN  /\ p.order_id \in 1..Len(orders)
                 /\ ~InSeq(p.order_id, active_games[t].order_ids)
                 /\ orders[p.order_id].status = "executed"
                 /\ orders[p.order_id].filled = orders[p.order_id].count
                 /\ p.size < orders[p.order_id].filled
                 /\ p.exit_order_id \in 1..Len(orders)
                 /\ orders[p.exit_order_id].count = p.size

\* the quantity of sell order o that is filled or still live on the exchange
Committed(o) == IF o.status = "canceled" THEN o.filled ELSE o.count

\* the sell orders of market t placed for position p
SellsFor(book, t, p) == {j \in SellsOf(book, t) : book[j].for_order = p.order_id}

\* the sell orders placed for p that are live
LiveSellsFor(book, t, p) == {j \in SellsFor(book, t, p) : book[j].status = "resting"}

\* C33: for every Position the quantity of the sell orders placed for it that
\* is filled or still live on the exchange is at most the Position's size,
\* and the Position has at most one live sell order at a time.
C33_NoOversell ==
    \A t \in Games : \A k \in 1..Len(active_games[t].positions) :
        LET p == active_games[t].positions[k]
        IN  /\ SumSeq([j \in 1..Len(orders) |->
                    IF j \in SellsFor(orders, t, p) THEN Committed(orders[j]) ELSE 0])
                 <= p.size
            /\ Cardinality(LiveSellsFor(orders, t, p)) <= 1

\* the halftime timeout placed a flatten sell for a Position whose bracket
\* sell had filled
C33_SoldTwice ==
    \E t \in Games : \E k \in 1..Len(active_games[t].positions) :
        LET p == active_games[t].positions[k]
        IN  \E i, j \in SellsFor(orders, t, p) :
              /\ orders[i].placed_by = "_place_exit_order"
              /\ orders[i].filled = orders[i].count
              /\ orders[j].placed_by = "exit_position_at_halftime"

\* sell order j is confirmed filled
ConfirmedFilled(book, j) ==
    book[j].status \in {"executed", "gone"} /\ book[j].filled = book[j].count

\* C34: a market is closed and removed from the active set only if for each
\* of its Positions a sell order was placed and has been confirmed filled
\* (live mode).
C34_ClosedOnlyWhenSold ==
    [][\A t \in Games :
          (Closes(t) /\ ~dry_run)
          => \A k \in 1..Len(active_games[t].positions) :
                \E j \in SellsFor(orders', t, active_games[t].positions[k]) :
                    ConfirmedFilled(orders', j)]_vars

\* the market is closed; the bracket sell of one of its Positions was
\* cancelled unfilled and no other sell was ever placed for that Position
C34_DiscardedUnsold ==
    /\ Games = {}
    /\ pc = "sleep"
    /\ \E i \in 1..Len(orders) :
          /\ orders[i].action = "buy"
          /\ \E j \in 1..Len(orders) :
                /\ orders[j].action = "sell" /\ orders[j].for_order = i
                /\ orders[j].status = "canceled" /\ orders[j].filled = 0
          /\ \A j \in 1..Len(orders) :
                (orders[j].action = "sell" /\ orders[j].for_order = i)
                => orders[j].status = "canceled"

\* C35: when a tick at or past a market's deadline is over, every buy order
\* still in the market's pending list has been sent a cancel request (live
\* mode), also when the market holds no Position.
C35_NoPendingAfterDeadline ==
    \A t \in Games :
        (pc = "sleep" /\ ~dry_run /\ now >= active_games[t].halftime_ts)
        => \A id \in SeqToSet(active_games[t].order_ids) : id \in cancel_sent

\* no request has failed; a tick past the deadline is over and the ladder of
\* a market without Positions still rests, uncancelled
C35_RestingPastDeadline ==
    /\ pc = "sleep" /\ ~dry_run /\ anomalies = 0
    /\ \E t \in Games :
          /\ now >= active_games[t].halftime_ts
          /\ active_games[t].positions = <<>>
          /\ active_games[t].order_ids # <<>>
          /\ \A id \in SeqToSet(active_games[t].order_ids) :
                id \notin cancel_sent /\ orders[id].status = "resting"

\* the buy orders the exchange holds for market t
LadderOrders(book, t) ==
    {j \in 1..Len(book) : book[j].action = "buy" /\ book[j].ticker = t}

\* C36: each market's buy ladder is placed at most once: a step that sends a
\* buy order for a market is never followed, in a later tick, by another
\* step that sends a buy order for the same market.
C36_LadderOnce ==
    [][\A i \in PlacedNow :
          orders'[i].action = "buy" => LadderOrders(orders, orders'[i].ticker) = {}]_vars

\* the market was closed before its kickoff, discovered again and its
\* ladder was placed a second time
C36_SecondLadder ==
    \E t \in Games :
        /\ discoveries[t] > 1
        /\ active_games[t].triggered
        /\ \E i \in LadderOrders(orders, t) :
              /\ i > 1
              /\ InSeq(i, active_games[t].order_ids)
                 \/ HasPositionFor(active_games[t], i)
              /\ \E j \in LadderOrders(orders, t) :
                    j < i /\ ~InSeq(j, active_games[t].order_ids)
                          /\ ~HasPositionFor(active_games[t], j)

\* C37: every market is eventually removed from the active set after its
\* deadline, whether or not it was eligible, entered or filled.
C37_EventuallyRemoved ==
    \A t \in Tickers :
        (t \in Games /\ now >= active_games[t].halftime_ts) ~> (t \notin Games)

\* a tick past the deadline is over and the market, which was never entered
\* and holds neither orders nor Positions, is still in the active set
C37_IdlePastDeadline ==
    /\ pc = "sleep"
    /\ \E t \in Games :
          /\ now >= active_games[t].halftime_ts
          /\ ~active_games[t].triggered
          /\ active_games[t].order_ids = <<>>
          /\ active_games[t].positions = <<>>
          /\ LadderOrders(orders, t) = {}

====
